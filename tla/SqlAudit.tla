------------------------------ MODULE SqlAudit ------------------------------
(* The audit layer of sql-audit-engine/middleware.py: queries that are        *)
(* counted, run, logged and judged slow, over one SQLite connection with its  *)
(* implicit transaction: sqlite3 opens it before an INSERT, UPDATE or DELETE, *)
(* and only execute_write commits.                                            *)
EXTENDS Integers, Sequences, FiniteSets, Functions

CONSTANTS Patterns,     \* fingerprints of normalised queries
          MaxCalls      \* bound on the calls of execute and execute_write

VARIABLES freq,         \* _query_freq
          queryLogs,    \* _logs: call number, pattern, writes through execute_write, slow
          slowQueries,  \* _slow_queries
          dirty,        \* calls whose changes are in the open transaction
          committed,    \* calls whose changes are in the database file
          dbOpen,
          calls,        \* calls so far; the number names the call
          failedReads,  \* history: calls of execute that raised
          failedWrites  \* history: calls of execute_write that raised in commit

auditVars == <<freq, queryLogs, slowQueries, dirty, committed, dbOpen, calls,
               failedReads, failedWrites>>

AuditInit == /\ freq = [q \in Patterns |-> 0]
             /\ queryLogs = <<>> /\ slowQueries = <<>>
             /\ dirty = {} /\ committed = {}
             /\ dbOpen = TRUE
             /\ calls = 0
             /\ failedReads = {} /\ failedWrites = {}

Call == calls < MaxCalls /\ calls' = calls + 1

Count(q) == [freq EXCEPT ![q] = @ + 1]

Entry(q, writes, slow) == [call |-> calls + 1, pattern |-> q, writes |-> writes, slow |-> slow]

LogQuery(entry) ==
  /\ queryLogs' = Append(queryLogs, entry)
  /\ slowQueries' = IF entry.slow THEN Append(slowQueries, entry) ELSE slowQueries

----------------------------------------------------------------------------
(* execute(): counts, runs, fetches, logs. It is meant for reads but runs     *)
(* anything; a change it makes stays in the open transaction.                 *)

Execute(q, changes, slow) ==
  /\ Call /\ dbOpen
  /\ freq' = Count(q)
  /\ dirty' = IF changes THEN dirty \cup {calls + 1} ELSE dirty
  /\ LogQuery(Entry(q, FALSE, slow))
  /\ UNCHANGED <<committed, dbOpen, failedReads, failedWrites>>

ExecuteRaises(q) ==
  /\ Call
  /\ freq' = Count(q)
  /\ failedReads' = failedReads \cup {calls + 1}
  /\ UNCHANGED <<queryLogs, slowQueries, dirty, committed, dbOpen, failedWrites>>

(* execute_write(): runs, commits, counts, logs. *)

CommittedNotYet == committed \cup dirty

Committed == committed \cup dirty \cup {calls + 1}

DirtyAfterCommit == {}

ExecuteWrite(q, slow) ==
  /\ Call /\ dbOpen
  /\ committed' = Committed
  /\ dirty' = DirtyAfterCommit
  /\ freq' = Count(q)
  /\ LogQuery(Entry(q, TRUE, slow))
  /\ UNCHANGED <<dbOpen, failedReads, failedWrites>>

\* The statement raises: SQLite undoes it and keeps the transaction.
StatementRaises ==
  /\ Call
  /\ UNCHANGED <<freq, queryLogs, slowQueries, dirty, committed, dbOpen, failedReads, failedWrites>>

\* The commit raises (the file is locked by another connection): the statement's
\* changes stay in the open transaction.
CommitRaises ==
  /\ Call /\ dbOpen
  /\ dirty' = dirty \cup {calls + 1}
  /\ failedWrites' = failedWrites \cup {calls + 1}
  /\ UNCHANGED <<freq, queryLogs, slowQueries, committed, dbOpen, failedReads>>

Close ==
  /\ dbOpen
  /\ dbOpen' = FALSE
  /\ dirty' = {}
  /\ UNCHANGED <<freq, queryLogs, slowQueries, committed, calls, failedReads, failedWrites>>

AuditNext == \/ StatementRaises \/ CommitRaises \/ Close
             \/ \E q \in Patterns : ExecuteRaises(q)
             \/ \E q \in Patterns, slow \in BOOLEAN :
                  ExecuteWrite(q, slow) \/ \E changes \in BOOLEAN : Execute(q, changes, slow)

AuditSpec == AuditInit /\ [][AuditNext]_auditVars

----------------------------------------------------------------------------
(* top_queries() and report() *)

Top(n) == {q \in Patterns : freq[q] > 0 /\ Cardinality({r \in Patterns : freq[r] > freq[q]}) < n}

TotalQueries == Len(queryLogs)

----------------------------------------------------------------------------
(* Properties *)

Entries(log) == {log[i] : i \in DOMAIN log}
Logged == {entry.call : entry \in Entries(queryLogs)}
Written == {entry.call : entry \in {e \in Entries(queryLogs) : e.writes}}

\* middleware.py 48-49 and 85-86: execute counts before it runs a query and
\* execute_write after the commit, so the frequencies exceed the log by exactly the
\* reads that raised, and a write that raised is in neither.
CountsAreLogsAndFailedReads ==
  SumFunctionOnSet(freq, {q \in Patterns : freq[q] > 0}) = TotalQueries + Cardinality(failedReads)

\* middleware.py 63-68 and 88-92: the slow queries are the logged ones flagged
\* slow, in the same order, so report() and suggest_indexes() see the same set.
SlowAreFlagged ==
  /\ Entries(slowQueries) = {entry \in Entries(queryLogs) : entry.slow}
  /\ \A log \in {queryLogs, slowQueries} :
       \A i, j \in DOMAIN log : i < j => log[i].call < log[j].call

\* middleware.py 71-93: what execute_write has logged is in the database file, even
\* after close(); and nothing is in the file that is not in the log, but for writes
\* whose own commit raised and which a later commit carried along.
AuditTrail == Written \subseteq committed /\ committed \subseteq Logged \cup failedWrites

\* middleware.py 52 and 144-145: a change made through execute() stays open only
\* until the next execute_write that commits; close() drops those after the last.
OnlyTailOpen == \A c \in dirty : \A w \in Written : w < c

\* middleware.py 48-93: counters, log, slow log and database file agree, but for the
\* calls that raised.
AuditAgrees == CountsAreLogsAndFailedReads /\ SlowAreFlagged /\ AuditTrail /\ OnlyTailOpen
=============================================================================
