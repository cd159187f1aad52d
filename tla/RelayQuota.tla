------------------------------ MODULE RelayQuota ------------------------------
(***************************************************************************)
(* The relay quota of one account: the gate in the agent handler           *)
(* (checkRelayQuota in auth_ok) and the accounting of a finished relay     *)
(* session (relay/accounting.go).  Every database statement is one action: *)
(* ApplyRelayBytes runs outside any lock or transaction, once for each     *)
(* closing session.  Usage is counted in bytes; the float64 gigabytes of   *)
(* the column are exact for the sizes the properties tell apart.           *)
(***************************************************************************)
EXTENDS Integers, FiniteSets, Sequences

CONSTANTS
    Sessions,   \* relay sessions of the account that can be open at once
    Limit,      \* relay_quota_gb
    MaxBytes,   \* bound on the bytes of one session
    MaxPeriods, \* bound on the quota periods that end
    MaxCalls,   \* bound on the sessions opened
    DBFails     \* whether database statements may fail

ASSUME QuotaAssumption ==
    /\ IsFiniteSet(Sessions) /\ Sessions # {}
    /\ Limit \in Nat /\ MaxBytes \in Nat \ {0}
    /\ MaxPeriods \in Nat /\ MaxCalls \in Nat
    /\ DBFails \in BOOLEAN

VARIABLES
    usage,      \* current_period_usage_gb
    period,     \* quota_period_start: how often the period has been rolled
    ended,      \* the time is after quota_period_end
    archive,    \* bandwidth_usage: rows [period, bytes]
    stage,         \* session -> where it or its ApplyRelayBytes is
    snap,       \* session -> the record FindRecordById returned
    bytes,      \* session -> forwardedBytes
    calls,      \* sessions opened so far
    applied,    \* history: the bytes of all increments that were executed
    archived,   \* history: the bytes of all archive rows
    raced       \* history: another call ran into a rollover, or one failed halfway

quotaVars == <<usage, period, ended, archive, stage, snap, bytes, calls, applied, archived, raced>>

Account == [usage : Nat, period : Nat, ended : BOOLEAN]

QuotaInit ==
    /\ usage = 0 /\ period = 0 /\ ended = FALSE
    /\ archive = <<>>
    /\ stage = [s \in Sessions |-> "idle"]
    /\ snap = [s \in Sessions |-> [usage |-> 0, period |-> 0, ended |-> FALSE]]
    /\ bytes = [s \in Sessions |-> 0]
    /\ calls = 0
    /\ applied = 0 /\ archived = 0 /\ raced = FALSE

Goto(s, label) == stage' = [stage EXCEPT ![s] = label]

\* Mutant: the limit is not looked at.
QuotaExceededNever == FALSE

\* checkRelayQuota
QuotaExceeded == usage >= Limit

\* auth_ok: a relay session is prepared only below the quota.
Open(s) ==
    /\ stage[s] = "idle" /\ calls < MaxCalls
    /\ ~QuotaExceeded
    /\ Goto(s, "open")
    /\ calls' = calls + 1
    /\ UNCHANGED <<usage, period, ended, archive, snap, bytes, applied, archived, raced>>

\* closeAndFlush calls ApplyRelayBytes when anything was forwarded.
CloseRelay(s, n) ==
    /\ stage[s] = "open"
    /\ Goto(s, IF n > 0 THEN "find" ELSE "idle")
    /\ bytes' = [bytes EXCEPT ![s] = n]
    /\ UNCHANGED <<usage, period, ended, archive, snap, calls, applied, archived, raced>>

\* The end of the period.  Thirty days pass first, and no call lasts that long.
PeriodEnds ==
    /\ ~ended /\ period < MaxPeriods
    /\ \A s \in Sessions : stage[s] \in {"archive", "save"} => snap[s].period = period
    /\ ended' = TRUE
    /\ UNCHANGED <<usage, period, archive, stage, snap, bytes, calls, applied, archived, raced>>

------------------------------------------------------------------------------
(* ApplyRelayBytes                                                         *)

\* The calls that have read the end of the period and not saved the next one.
Rolling == {s \in Sessions : stage[s] \in {"archive", "save"}}

\* A statement fails and the error is returned, which nobody looks at.
Fail(s) ==
    /\ DBFails /\ stage[s] \in {"find", "archive", "save", "add"}
    /\ Goto(s, "idle")
    /\ raced' = (raced \/ stage[s] = "save")
    /\ UNCHANGED <<usage, period, ended, archive, snap, bytes, calls, applied, archived>>

Find(s) ==
    /\ stage[s] = "find"
    /\ snap' = [snap EXCEPT ![s] = [usage |-> usage, period |-> period, ended |-> ended]]
    /\ Goto(s, IF ended THEN "archive" ELSE "add")
    /\ raced' = (raced \/ (ended /\ Rolling # {}))
    /\ UNCHANGED <<usage, period, ended, archive, bytes, calls, applied, archived>>

\* rollQuotaPeriod: the usage that was read is archived ...
Archive(s) ==
    /\ stage[s] = "archive"
    /\ archive' = Append(archive, [period |-> snap[s].period, bytes |-> snap[s].usage])
    /\ archived' = archived + snap[s].usage
    /\ Goto(s, "save")
    /\ UNCHANGED <<usage, period, ended, snap, bytes, calls, applied, raced>>

\* Mutant: the new period starts with the old usage.
SaveKeeping(s) ==
    /\ stage[s] = "save"
    /\ period' = snap[s].period + 1 /\ ended' = FALSE
    /\ Goto(s, "add")
    /\ UNCHANGED <<usage, archive, snap, bytes, calls, applied, archived, raced>>

\* ... and the record is saved.  Save writes the columns whose value differs
\* from the one that was read: the usage unless it was zero already.
Save(s) ==
    /\ stage[s] = "save"
    /\ usage' = IF snap[s].usage = 0 THEN usage ELSE 0
    /\ period' = snap[s].period + 1 /\ ended' = FALSE
    /\ Goto(s, "add")
    /\ UNCHANGED <<archive, snap, bytes, calls, applied, archived, raced>>

\* UPDATE users SET current_period_usage_gb = current_period_usage_gb + inc
Incremented(s) == usage + bytes[s]

Increment(s) ==
    /\ stage[s] = "add"
    /\ usage' = Incremented(s)
    /\ applied' = applied + bytes[s]
    /\ raced' = (raced \/ Rolling # {})
    /\ Goto(s, "idle")
    /\ UNCHANGED <<period, ended, archive, snap, bytes, calls, archived>>

Statement(s) == Find(s) \/ Archive(s) \/ Save(s) \/ Increment(s) \/ Fail(s)

QuotaNext ==
    \/ PeriodEnds
    \/ \E s \in Sessions :
        \/ Open(s) \/ Statement(s)
        \/ \E n \in 0 .. MaxBytes : CloseRelay(s, n)

QuotaSpec == QuotaInit /\ [][QuotaNext]_quotaVars

\* Time passes, calls proceed, sessions end, and clients keep asking for the
\* relay.
QuotaFairness ==
    /\ WF_quotaVars(PeriodEnds)
    /\ \A s \in Sessions :
        /\ WF_quotaVars(Open(s)) /\ WF_quotaVars(Statement(s))
        /\ WF_quotaVars(\E n \in 0 .. MaxBytes : CloseRelay(s, n))

FairQuotaSpec == QuotaSpec /\ QuotaFairness

------------------------------------------------------------------------------
(* Properties                                                              *)

\* The account's columns and the calls' locals have their types.
QuotaTypeOK ==
    /\ usage \in Nat /\ period \in Nat /\ ended \in BOOLEAN
    /\ archive \in Seq([period : Nat, bytes : Nat])
    /\ stage \in [Sessions -> {"idle", "open", "find", "archive", "save", "add"}]
    /\ snap \in [Sessions -> Account]
    /\ bytes \in [Sessions -> 0 .. MaxBytes]
    /\ calls \in Nat
    /\ applied \in Nat /\ archived \in Nat /\ raced \in BOOLEAN

Busy == {s \in Sessions : stage[s] # "idle"}

\* The quota is checked when a session is prepared and charged when it ends, so
\* it can be overshot; the overshoot never exceeds what the sessions open at
\* once can carry, whatever is opened, rolled over or fails meanwhile.
SoftQuota == usage < Limit + Cardinality(Sessions) * MaxBytes

\* Within a period no increment is lost, whatever calls run concurrently
\* (accounting.go:22 and :40).
IncrementsExact == period = 0 /\ ~ended => usage = applied

\* The books balance when no call is under way: every byte that was applied is
\* in the current period or archived, once, over any number of periods, unless
\* a call ran while another rolled the period over or a rollover failed after it
\* archived.
Balanced == Busy = {} /\ ~raced => usage + archived = applied

\* accounting.go:24-26: "A double rollover would simply archive zero usage".
DoubleRolloverArchivesZero ==
    \A i, j \in DOMAIN archive :
        i # j /\ archive[i].period = archive[j].period =>
            archive[i].bytes = 0 \/ archive[j].bytes = 0

\* 2026-04-07-slice-10b-bandwidth-quotas.md:316: "Reset current_period_usage_gb
\* to 0 every 30 days": an account that is over its quota when the period ends
\* can use the relay again.  (calls < MaxCalls: the bound is not what stops it.)
QuotaResets ==
    (ended /\ QuotaExceeded /\ calls < MaxCalls) ~> ~QuotaExceeded
===============================================================================
