------------------------------ MODULE JobQueue ------------------------------
(***************************************************************************)
(* What a queue of jobs promises, whatever doing a job takes: only the job *)
(* at the front gets on, no part of it is done twice or undone, a job ends *)
(* once, at the front and with nothing left to do if it is completed, or   *)
(* with the whole queue when that is dropped; nothing overtakes.           *)
(***************************************************************************)
EXTENDS Integers, Sequences

CONSTANTS
    Jobs,       \* the jobs that may be submitted, each once
    MaxParts    \* parts of one job, at most

VARIABLES
    jobs,     \* the queue
    result,   \* of each job: "new", "queued" or how it ended
    parts,    \* how many parts each job is known to have
    done      \* done[j][k]: how often part k of job j was done

vars == <<jobs, result, parts, done>>

Init ==
    /\ jobs = <<>> /\ result = [j \in Jobs |-> "new"]
    /\ parts \in [Jobs -> 0..MaxParts]
    /\ done = [j \in Jobs |-> [k \in 1..MaxParts |-> 0]]

\* A job joins the queue at its end, or finds it empty and has nothing to do.
Submit(j) ==
    /\ result[j] = "new"
    /\ \/ jobs' = Append(jobs, j) /\ result' = [result EXCEPT ![j] = "queued"]
       \/ jobs = <<>> /\ parts[j] = 0 /\ result' = [result EXCEPT ![j] = "completed"] /\ UNCHANGED jobs
    /\ UNCHANGED <<parts, done>>

\* Parts of the front job are found and done.
Work ==
    \E n \in 0..MaxParts, d \in [1..MaxParts -> 0..1] :
        /\ n >= parts[Head(jobs)] /\ parts' = [parts EXCEPT ![Head(jobs)] = n]
        /\ \A k \in 1..MaxParts : d[k] >= done[Head(jobs)][k]
        /\ done' = [done EXCEPT ![Head(jobs)] = d]

\* The first n jobs end: completed, unless the front one failed.
End(n, first) ==
    LET ended == {jobs[i] : i \in 1..n}
    IN  /\ jobs' = SubSeq(jobs, n + 1, Len(jobs))
        /\ result' = [j \in Jobs |-> IF j \notin ended THEN result[j]
                                     ELSE IF j = Head(jobs) THEN first ELSE "completed"]
        /\ \A j \in ended : result'[j] = "completed" => \A k \in 1..parts'[j] : done'[j][k] = 1

Proceed ==
    /\ jobs # <<>> /\ Work
    /\ \E n \in 0..Len(jobs), first \in {"completed", "failed"} : End(n, first)

\* Every job in the queue ends with result r.
Drop(r) ==
    /\ jobs' = <<>>
    /\ result' = [j \in Jobs |-> IF \E i \in 1..Len(jobs) : jobs[i] = j THEN r ELSE result[j]]
    /\ UNCHANGED <<parts, done>>

Next == (\E j \in Jobs : Submit(j)) \/ Proceed \/ Drop("cancelled") \/ Drop("lost")

Spec == Init /\ [][Next]_vars
=============================================================================
