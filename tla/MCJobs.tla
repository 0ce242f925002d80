------------------------------- MODULE MCJobs -------------------------------
(* Small instances of Jobs: the first job has a log of two pages and starts  *)
(* another process, the second is a short command without output.            *)
EXTENDS Jobs

LogLengths == <<2, 0>>

-----------------------------------------------------------------------------
(* A sentence that does not hold to the letter once a process of the job     *)
(* outlives its command; see README.md.                                      *)

(* "so `stop` ends the job's children too" (docs/JOBS-API.md:30-31): however *)
(* a stop of a known job is answered, nothing of its group runs.             *)
StopEndsChildren ==
    \A s \in Stoppers :
        stop[s].pc \in {"stopped", "refused"} => GroupDead(stop[s].id)
=============================================================================
