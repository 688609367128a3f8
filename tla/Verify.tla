------------------------------- MODULE Verify -------------------------------
(***************************************************************************)
(* cdcctl verify (internal/verify) beside a running pipeline.  It reads    *)
(* the source and the destination and nothing else, table by table, each   *)
(* side in a query of its own, so that both may move between any two of    *)
(* its reads.  It repeats the pass until all tables agree or its time is   *)
(* up.  A digest stands for what it digests.                               *)
(***************************************************************************)
EXTENDS Delivery

VARIABLES
    verifyPC,       \* source, dest: about to digest that side; retry: asleep
    checking,       \* the table being compared, its place in the list
    srcCS,          \* the digest of its source side
    mismatches,     \* the tables found different in this pass
    began           \* for the properties: length of the WAL when the pass began

verifyVars == <<verifyPC, checking, srcCS, mismatches, began>>
allVars == <<vars, verifyVars>>

\* "publication %q covers no tables" is an error of its own.
ASSUME VerifyAssumption == IsFiniteSet(Tables) /\ Tables # {}

VerifyPCs == {"off", "source", "dest", "retry", "match", "failed"}

\* listTables, ORDER BY 1.
shapes == SetToSeq(Tables)

checksum(contents, t) == [r \in {r \in Rows : TableOf[r] = t} |-> contents[r]]

NoChecksum == [r \in {} |-> Absent]

VerifyInit ==
    /\ verifyPC = "off"
    /\ checking = 1
    /\ srcCS = NoChecksum
    /\ mismatches = {}
    /\ began = 0

-----------------------------------------------------------------------------

BeginPass ==
    /\ verifyPC' = "source"
    /\ checking' = 1
    /\ mismatches' = {}
    /\ began' = Len(wal)
    /\ UNCHANGED srcCS

Run == verifyPC = "off" /\ BeginPass

\* Faulty variant: the mismatches of all passes are added up.
RetryAddsUp ==
    /\ verifyPC = "retry"
    /\ verifyPC' = "source"
    /\ checking' = 1
    /\ began' = Len(wal)
    /\ UNCHANGED <<srcCS, mismatches>>

Retry == verifyPC = "retry" /\ BeginPass

ReadSource ==
    /\ verifyPC = "source"
    /\ srcCS' = checksum(table, shapes[checking])
    /\ verifyPC' = "dest"
    /\ UNCHANGED <<checking, mismatches, began>>

\* Faulty variant: a table the destination does not have is passed over.
AgreesOrAbsent(t) == t \in destTables => checksum(dest, t) = srcCS

\* A table the destination does not have is a mismatch like any other.
Agrees(t) == t \in destTables /\ checksum(dest, t) = srcCS

\* Faulty variant: one table too many.
PastLastTable == checking > Len(shapes)

AtLastTable == checking = Len(shapes)

ReadDest ==
    /\ verifyPC = "dest"
    /\ mismatches' = IF Agrees(shapes[checking]) THEN mismatches
                     ELSE mismatches \cup {shapes[checking]}
    /\ IF AtLastTable
       THEN checking' = 1 /\ verifyPC' = IF mismatches' = {} THEN "match" ELSE "retry"
       ELSE checking' = checking + 1 /\ verifyPC' = "source"
    /\ srcCS' = NoChecksum
    /\ UNCHANGED began

\* Only the destination may be unreadable without ending Run.
SourceUnreadable ==
    /\ verifyPC = "source"
    /\ verifyPC' = "failed"
    /\ UNCHANGED <<checking, srcCS, mismatches, began>>

DeadlinePassed ==
    /\ verifyPC = "retry"
    /\ verifyPC' = "failed"
    /\ UNCHANGED <<checking, srcCS, mismatches, began>>

VerifyProgress == Run \/ Retry \/ ReadSource \/ ReadDest

VerifyStep == VerifyProgress \/ SourceUnreadable \/ DeadlinePassed

VerifiedInit == Init /\ VerifyInit

VerifiedNext ==
    \/ Next /\ UNCHANGED verifyVars
    \/ VerifyStep /\ UNCHANGED vars

\* compareAll takes its next step; nothing says when the deadline is, or that
\* the source stops answering.
VerifiedSpec ==
    /\ VerifiedInit
    /\ [][VerifiedNext]_allVars
    /\ WF_allVars(VerifyProgress /\ UNCHANGED vars)
    /\ Fairness

-----------------------------------------------------------------------------

(* The types of verify's own variables. *)
VerifyTypeOK ==
    /\ verifyPC \in VerifyPCs
    /\ checking \in 1..Len(shapes)
    /\ DOMAIN srcCS \subseteq Rows
    /\ mismatches \subseteq Tables
    /\ began \in 0..Len(wal)

(* "Which is what makes its MATCH trustworthy" (verify.go:18-19): although *)
(* no two of its reads are of one moment, a MATCH of a pass during which   *)
(* the source was quiet means that every row the source has is at the      *)
(* destination, with the source's values, as long as no batch is applied   *)
(* again meanwhile.  It does not mean that the databases are equal: a row  *)
(* that the source inserted and deleted is missing on both sides while     *)
(* both events are under way, and appears at the destination when the      *)
(* first of them is applied behind the comparison.                         *)
MatchMissesNothing ==
    verifyPC = "match" /\ began = Len(wal) /\ faults = 0 =>
        \A r \in Rows : table[r] # Absent => dest[r] = table[r]

SeenAtDest(t) ==
    \E p \in Partitions : \E i \in DOMAIN log[p] : TableOf[log[p][i].row] = t

\* Neither the deadline nor the source ends it.
KeepsTrying == [](verifyPC # "failed")

(* "Failure is never converging, not a single mismatched snapshot"         *)
(* (verify.go:14-16): left to retry, verify ends with a MATCH, whatever it *)
(* saw on the way, if every published table had an event at all.           *)
EventuallyMatches ==
    KeepsTrying /\ <>(\A t \in Tables : SeenAtDest(t)) => <>(verifyPC = "match")

(* "The dest table may not exist yet (no events seen): a mismatch, not a   *)
(* fatal error, so the retry loop can wait it out" (verify.go:78-79).      *)
MissingTableWaitedOut == KeepsTrying => <>(verifyPC = "match")

=============================================================================
