---------------------------- MODULE CustomContent ----------------------------
(***************************************************************************)
(* Custom content sequencing, from                                         *)
(* src/libraries/chain/sophiatx_evaluator.cpp: custom_json and             *)
(* custom_binary.  One operation stores a custom_content_object per        *)
(* recipient, all with the sender's next sequence number for the app and   *)
(* each with the recipient's next one, then runs the app's interpreter if  *)
(* there is one.  An interpreter failure that propagates aborts the        *)
(* operation: nothing of it is stored.  Payloads are left out.             *)
(***************************************************************************)
EXTENDS Naturals, FiniteSets, FiniteSetsExt

CONSTANTS
    Accounts,       \* account names (model values)
    AppIds,         \* application ids
    Interpreted,    \* apps with a registered custom_operation_interpreter
    RecipientSets,  \* the recipient lists an operation may carry
    MaxOps          \* bound on the number of operations applied

ASSUME Interpreted \subseteq AppIds /\ RecipientSets \subseteq SUBSET Accounts

\* What the interpreter's apply() does: return, throw an fc::exception, or
\* throw anything else.
Outcomes == {"ok", "fc_exception", "other_exception"}

VARIABLES
    content,    \* set of custom_content_objects
    ops,        \* number of operations applied (history: the op of a record)
    failed      \* history: ops committed by a producing node although its interpreter threw

vars == <<content, ops, failed>>

Init ==
    /\ content = {}
    /\ ops = 0
    /\ failed = {}

MaxOrZero(S) == IF S = {} THEN 0 ELSE Max(S)

\* Mutant: the by_sender lookup checks the sender but not the app.
LastSenderSequence_AnyApp(s, app) ==
    MaxOrZero({c.sender_sequence : c \in {c \in content : c.sender = s}})

\* The highest sequence recorded for a party and an app, found through the
\* by_sender / by_recipient index; 0 when there is none.
LastSenderSequence(s, app) ==
    MaxOrZero({c.sender_sequence : c \in {c \in content : c.sender = s /\ c.app_id = app}})
LastRecipientSequence(r, app, cs) ==
    MaxOrZero({c.recipient_sequence : c \in {c \in cs : c.recipient = r /\ c.app_id = app}})

\* The objects one operation creates: the sender sequence is read once,
\* before the loop; each recipient's is read from the index as it stands
\* (recipients is a set, so no recipient repeats within one operation).
NewContent(sender, app, recipients, binary) ==
    LET seq == LastSenderSequence(sender, app) + 1 IN
    {[binary |-> binary, app_id |-> app, sender |-> sender, recipient |-> r,
      sender_sequence |-> seq,
      recipient_sequence |-> LastRecipientSequence(r, app, content) + 1,
      op |-> ops + 1] : r \in recipients}

\* The interpreter call after the objects are stored: an fc::exception is
\* rethrown on a producing node, which aborts the operation and leaves the
\* state as it was; everything else is swallowed.
Committed(app, outcome, producing) ==
    ~(app \in Interpreted /\ outcome = "fc_exception" /\ producing)

RecordContent(sender, app, recipients, binary, outcome, producing) ==
    /\ app \notin Interpreted => outcome = "ok"
    /\ IF Committed(app, outcome, producing)
         THEN /\ ops < MaxOps
              /\ content' = content \cup NewContent(sender, app, recipients, binary)
              /\ ops' = ops + 1
              /\ failed' = IF producing /\ outcome # "ok" THEN failed \cup {ops + 1} ELSE failed
         ELSE UNCHANGED vars

\* custom_json_evaluator::do_apply
CustomJson(sender, app, recipients, outcome, producing) ==
    RecordContent(sender, app, recipients, FALSE, outcome, producing)

\* custom_binary_evaluator::do_apply
CustomBinary(sender, app, recipients, outcome, producing) ==
    RecordContent(sender, app, recipients, TRUE, outcome, producing)

Next ==
    \E s \in Accounts, app \in AppIds, rs \in RecipientSets, o \in Outcomes, p \in BOOLEAN :
        \/ CustomJson(s, app, rs, o, p)
        \/ CustomBinary(s, app, rs, o, p)

Spec == Init /\ [][Next]_vars

-----------------------------------------------------------------------------
(***************************************************************************)
(* Properties                                                              *)
(***************************************************************************)

\* The records of a party's side for an app, with the sequence it sees.
SideOf(c, side) == IF side = "sender" THEN c.sender ELSE c.recipient
SeqOf(c, side)  == IF side = "sender" THEN c.sender_sequence ELSE c.recipient_sequence

\* For every party, app and side (sender or recipient), the sequence
\* numbers follow the operations: records of one operation share one
\* sender sequence, a later operation has a higher number than an earlier
\* one, and the numbers used are exactly 1..k with no gap, whatever mix of
\* JSON and binary content, apps and overlapping recipient lists the
\* senders interleave.
SequencesFollowOperations ==
    \A p \in Accounts, app \in AppIds, side \in {"sender", "recipient"} :
        LET mine == {c \in content : SideOf(c, side) = p /\ c.app_id = app}
            used == {SeqOf(c, side) : c \in mine}
        IN  /\ \A c, d \in mine : (c.op < d.op <=> SeqOf(c, side) < SeqOf(d, side))
            /\ used = 1..Cardinality(used)

\* A producing node commits no operation whose interpreter threw: the
\* exception propagates and the operation is aborted (spec, section 4.6).
ProducingAbortsOnInterpreterFailure ==
    failed = {}
====
