------------------------------ MODULE JobsApi ------------------------------
(* The job board of recruit-data-api: app.py, one SQLite statement and commit *)
(* per request, and the pages of frontend/script.js, whose requests travel    *)
(* and whose answers arrive in any order. Equal requests of a page that are on *)
(* the way together count as one.                                             *)
EXTENDS Integers, FiniteSets, FiniteSetsExt

CONSTANTS Pages, MaxJobs,
          MaxRequests     \* bound on the requests a page has on the way

VARIABLES jobs,       \* ids of the rows; a row's content never changes
          sequence,   \* sqlite_sequence: the largest id ever given
          listing,    \* what a page shows: jobs, as <<id, birth>>
          born,       \* history: birth number of the row of each id
          births,     \* history: rows ever inserted
          requests    \* requests and answers on the way

jobsVars == <<jobs, sequence, listing, born, births, requests>>

JobsInit == /\ jobs = {} /\ sequence = 0
            /\ listing = [p \in Pages |-> {}]
            /\ born = [i \in 1 .. MaxJobs |-> 0] /\ births = 0
            /\ requests = {[page |-> p, kind |-> "list"] : p \in Pages}

Sending(p) == Cardinality({r \in requests : r.page = p}) < MaxRequests

\* The form is submitted, or a remove button of the listing is pressed.
ClickAdd(p) ==
  /\ Sending(p) /\ births < MaxJobs
  /\ requests' = requests \cup {[page |-> p, kind |-> "add"]}
  /\ UNCHANGED <<jobs, sequence, listing, born, births>>

ClickRemove(p, job) ==
  /\ Sending(p) /\ job \in listing[p]
  /\ requests' = requests \cup {[page |-> p, kind |-> "delete", job |-> job]}
  /\ UNCHANGED <<jobs, sequence, listing, born, births>>

NextIdPlain == Max(jobs \cup {0}) + 1

\* AUTOINCREMENT.
NextId == sequence + 1

\* The answers of add and delete make the page load the list again.
Reload(r) == (requests \ {r}) \cup {[page |-> r.page, kind |-> "list"]}

AddJob(r) ==
  /\ r.kind = "add" /\ births < MaxJobs
  /\ jobs' = jobs \cup {NextId}
  /\ sequence' = Max({sequence, NextId})
  /\ births' = births + 1
  /\ born' = [born EXCEPT ![NextId] = births + 1]
  /\ requests' = Reload(r)
  /\ UNCHANGED listing

DeleteJob(r) ==
  /\ r.kind = "delete"
  /\ jobs' = jobs \ {r.job[1]}
  /\ requests' = Reload(r)
  /\ UNCHANGED <<sequence, listing, born, births>>

GetJobs(r) ==
  /\ r.kind = "list"
  /\ requests' = (requests \ {r}) \cup
       {[page |-> r.page, kind |-> "rows", rows |-> {<<i, born[i]>> : i \in jobs}]}
  /\ UNCHANGED <<jobs, sequence, listing, born, births>>

LoadJobs(r) ==
  /\ r.kind = "rows"
  /\ listing' = [listing EXCEPT ![r.page] = r.rows]
  /\ requests' = requests \ {r}
  /\ UNCHANGED <<jobs, sequence, born, births>>

JobsNext == \/ \E p \in Pages : ClickAdd(p) \/ \E job \in listing[p] : ClickRemove(p, job)
            \/ \E r \in requests : AddJob(r) \/ DeleteJob(r) \/ GetJobs(r) \/ LoadJobs(r)

JobsSpec == JobsInit /\ [][JobsNext]_jobsVars

----------------------------------------------------------------------------
(* Property *)

\* app.py 13 and 56-59, script.js 20-23: a listing may be stale, or shown
\* out of order, but a remove never takes another job than the one it was
\* pressed on: what is gone then is that job, or nothing.
RemovesWhatWasPressed ==
  \A r \in requests : r.kind = "delete" /\ r.job[1] \in jobs => born[r.job[1]] = r.job[2]
=============================================================================
