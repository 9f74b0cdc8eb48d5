----------------------------- MODULE AuditChain -----------------------------
(***************************************************************************)
(* The hash-chained audit log of Safe4 (app/storage.py, app/api/audit.py). *)
(* An append reads the last row and inserts the next one under a lock that *)
(* is local to its process; several processes on one database interleave   *)
(* between the two, and only the uniqueness of the table's columns is left *)
(* to stop them.  A handler appends after it has committed its change.     *)
(***************************************************************************)
EXTENDS Integers, Sequences, FiniteSets

CONSTANTS
    Processes,   \* server processes that share the database
    Changes      \* committed changes, each followed by one append

Genesis == <<>>
Unread == <<0, 0>>

VARIABLES
    entries,   \* audit_entries: rows [sequence, previous, content, hash]
    last,      \* the last row a process has read inside append_audit_entry
    writing,   \* the change whose entry it writes
    fate       \* what became of the entry of a change

chainVars == <<entries, last, writing, fate>>

\* compute_audit_entry_hash: a hash stands for what canonicalize_audit_entry
\* feeds it, here the position, the predecessor and the content.
HashOf(sequence, previous, content) == <<sequence, previous, content>>

Latest == {r \in entries : \A q \in entries : q.sequence <= r.sequence}

\* The row that follows the one read: <<>> for an empty table, else <<row>>.
Successor(row, c) ==
    IF row = Genesis THEN [sequence |-> 1, previous |-> Genesis, content |-> c,
                           hash |-> HashOf(1, Genesis, c)]
    ELSE [sequence |-> row[1].sequence + 1, previous |-> row[1].hash, content |-> c,
          hash |-> HashOf(row[1].sequence + 1, row[1].hash, c)]

\* Under the lock of p: SELECT ... ORDER BY sequence_number DESC LIMIT 1.
ReadLast(p, c) ==
    /\ last[p] = Unread
    /\ fate[c] = "committed" /\ \A q \in Processes : writing[q] # c
    /\ last' = [last EXCEPT ![p] = IF entries = {} THEN Genesis
                                   ELSE <<CHOOSE r \in Latest : TRUE>>]
    /\ writing' = [writing EXCEPT ![p] = c]
    /\ UNCHANGED <<entries, fate>>

\* Mutant: the sequence numbers need not be unique.
CollidesByHash(row) == \E r \in entries : r.hash = row.hash

\* UNIQUE (sequence_number), UNIQUE (entry_hash).
Collides(row) == \E r \in entries : r.sequence = row.sequence \/ r.hash = row.hash

\* The INSERT and the commit; a collision raises, and the handler fails with its
\* change committed and no entry.
InsertEntry(p) ==
    /\ last[p] # Unread
    /\ LET row == Successor(last[p], writing[p]) IN
       /\ entries' = IF Collides(row) THEN entries ELSE entries \cup {row}
       /\ fate' = [fate EXCEPT ![writing[p]] = IF Collides(row) THEN "lost" ELSE "logged"]
    /\ last' = [last EXCEPT ![p] = Unread]
    /\ writing' = [writing EXCEPT ![p] = Unread]

\* The process dies between its commit and its append, or inside the append.
LoseWriter(p) ==
    /\ last[p] # Unread
    /\ fate' = [fate EXCEPT ![writing[p]] = "lost"]
    /\ last' = [last EXCEPT ![p] = Unread]
    /\ writing' = [writing EXCEPT ![p] = Unread]
    /\ UNCHANGED entries

ChainInit ==
    /\ entries = {}
    /\ last = [p \in Processes |-> Unread]
    /\ writing = [p \in Processes |-> Unread]
    /\ fate = [c \in Changes |-> "committed"]

ChainNext == \E p \in Processes :
    \/ \E c \in Changes : ReadLast(p, c)
    \/ InsertEntry(p)
    \/ LoseWriter(p)

ChainSpec == ChainInit /\ [][ChainNext]_chainVars

----------------------------------------------------------------------------
(* Reading the log back.                                                   *)

\* list_audit_entries: in the order of the sequence numbers.
Listed == CHOOSE s \in [1..Cardinality(entries) -> entries] : \A i, j \in DOMAIN s :
             i < j => s[i] # s[j] /\ s[i].sequence <= s[j].sequence

Recomputes(r) == r.hash = HashOf(r.sequence, r.previous, r.content)

\* verify_audit_chain.
ChainValid(s) ==
    \A i \in 1..Len(s) :
       /\ s[i].previous = (IF i = 1 THEN Genesis ELSE s[i - 1].hash)
       /\ Recomputes(s[i])

\* verify_chain_segment: the predecessor of the first entry is taken as it is.
SegmentValid(s) ==
    \A i \in 1..Len(s) :
       /\ i > 1 => s[i].previous = s[i - 1].hash
       /\ Recomputes(s[i])

\* Whatever processes append at the same time and wherever they die, the log
\* verifies as a whole and in every slice a report is made of, and holds at most
\* one entry of each change, exactly one of each change that was not lost.
ChainVerifies ==
    /\ ChainValid(Listed)
    /\ \A i, j \in 1..Len(Listed) : SegmentValid(SubSeq(Listed, i, j))
    /\ \A r, q \in entries : r.content = q.content => r = q
    /\ \A c \in Changes : fate[c] = "logged" <=> \E r \in entries : r.content = c
=============================================================================
