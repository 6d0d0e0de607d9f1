----------------------------- MODULE OrderedIndex -----------------------------
(***************************************************************************)
(* What an index promises its callers: a set of entries, one to a key, and   *)
(* a cursor that reports the entries of an interval in the order of their   *)
(* keys, each once.  A call may answer with an error instead, and has then  *)
(* changed nothing; once a mutation has taken effect its answer is OK.      *)
(***************************************************************************)
EXTENDS Integers

CONSTANTS
    Keys,      \* the keys, integers
    NoKey,     \* the key an answer carries when it is about none
    Rids,      \* the RIDs callers store under each key
    Intervals, \* the <<lo, hi>> callers scan
    NoRid      \* the RID an answer carries when it is about none

VARIABLES
    entries,   \* the key and the RID of every entry
    applied,   \* the mutation that has taken effect and is not answered yet
    cursor,    \* the interval an open scan still has to report
    answer     \* what the last call has answered, NoAnswer while one is running

vars == <<entries, applied, cursor, answer>>

NoCall == [op |-> "none", key |-> NoKey]
NoCursor == [state |-> "none"]
Exhausted == [state |-> "end"]
Interval(from, hi) == [state |-> "open", from |-> from, hi |-> hi]

Answer(op, key, status, rid) == [op |-> op, key |-> key, status |-> status, rid |-> rid]
NoAnswer == Answer("none", NoKey, "none", NoRid)

Quiet == applied = NoCall

\* The step answers a call, or is the one where a mutation takes effect.
StepOf(op) == op \in {applied'.op, answer'.op}

\* The keys the step can be about.
StepKeys == {applied'.key, answer'.key} \cap Keys

\* A call fails, and answers without a key.
Fault(op) == answer' = Answer(op, NoKey, "Error", NoRid)

Present(k) == \E e \in entries : e.key = k

\* A mutation takes effect, and is answered in the same step or later.
TakesEffect(op, k) ==
    \/ applied' = [op |-> op, key |-> k] /\ answer' = NoAnswer
    \/ answer' = Answer(op, k, "OK", NoRid) /\ UNCHANGED applied

\* What the index holds refuses a mutation.
Refused(op, k, status) == answer' = Answer(op, k, status, NoRid) /\ UNCHANGED <<entries, applied>>

Insert(k, rid) ==
    /\ Quiet /\ StepOf("insert")
    /\ cursor = NoCursor /\ UNCHANGED cursor
    /\ \/ /\ ~Present(k) /\ TakesEffect("insert", k)
          /\ entries' = entries \cup {[key |-> k, rid |-> rid]}
       \/ Present(k) /\ Refused("insert", k, "DuplicateKey")

Delete(k) ==
    /\ Quiet /\ StepOf("delete")
    /\ cursor = NoCursor /\ UNCHANGED cursor
    /\ \/ /\ Present(k) /\ TakesEffect("delete", k)
          /\ entries' = {e \in entries : e.key # k}
       \/ ~Present(k) /\ Refused("delete", k, "NotFound")

Finish ==
    /\ applied # NoCall
    /\ applied' = NoCall
    /\ answer' = Answer(applied.op, applied.key, "OK", NoRid)
    /\ UNCHANGED <<entries, cursor>>

Get(k) ==
    /\ Quiet /\ StepOf("get")
    /\ \/ \E e \in entries : e.key = k /\ answer' = Answer("get", k, "OK", e.rid)
       \/ ~Present(k) /\ answer' = Answer("get", k, "NotFound", NoRid)
    /\ UNCHANGED <<entries, applied, cursor>>

Scan(lo, hi) ==
    /\ Quiet /\ StepOf("scan") /\ cursor = NoCursor
    /\ answer' = Answer("scan", lo, "OK", NoRid)
    /\ cursor' = Interval(lo, hi)
    /\ UNCHANGED <<entries, applied>>

\* The entries the cursor still has to report.
Left ==
    IF cursor = Exhausted THEN {} ELSE {e \in entries : cursor.from <= e.key /\ e.key <= cursor.hi}

NextEntry ==
    /\ Quiet /\ cursor # NoCursor /\ StepOf("next")
    /\ \/ \E e \in Left :
             /\ \A other \in Left : e.key <= other.key
             /\ cursor' = Interval(e.key + 1, cursor.hi)
             /\ answer' = Answer("next", e.key, "OK", e.rid)
       \/ Left = {} /\ answer' = Answer("next", NoKey, "End", NoRid) /\ cursor' = Exhausted
       \/ cursor # Exhausted /\ Fault("next") /\ cursor' = Exhausted
    /\ UNCHANGED <<entries, applied>>

Fails ==
    /\ Quiet /\ cursor = NoCursor
    /\ \E op \in {"insert", "delete", "get", "scan"} : Fault(op)
    /\ UNCHANGED <<entries, applied, cursor>>

Drop ==
    /\ Quiet /\ cursor # NoCursor
    /\ cursor' = NoCursor /\ answer' = NoAnswer
    /\ UNCHANGED <<entries, applied>>

\* A call begins, or the index is closed: the last answer is forgotten.
Forget == answer' = NoAnswer /\ UNCHANGED <<entries, applied, cursor>>

Init ==
    /\ entries = {}
    /\ applied = NoCall
    /\ cursor = NoCursor
    /\ answer = NoAnswer

Next ==
    \/ \E k \in StepKeys : Get(k) \/ Delete(k) \/ \E rid \in Rids[k] : Insert(k, rid)
    \/ \E interval \in Intervals : Scan(interval[1], interval[2])
    \/ Fails \/ Finish \/ NextEntry \/ Drop \/ Forget

Spec == Init /\ [][Next]_vars

=============================================================================
