-------------------------------- MODULE CApi --------------------------------
(***************************************************************************)
(* The C binding, db/c.cc: which strings it allocates and frees, what it   *)
(* reports through errptr and through the value it returns, and the        *)
(* handles it makes.  The client follows include/leveldb/c.h:              *)
(* one errptr that starts as NULL, a handle is used between its creation   *)
(* and its destruction.  What the database answers is a choice.            *)
(***************************************************************************)
EXTENDS Naturals, FiniteSets

CONSTANTS MaxStrings,    \* strings of the C heap at a time
          MaxHandles,    \* handles of each kind at a time
          MaxOutcomes    \* calls that can fail

ASSUME CApiAssumption == {MaxStrings, MaxHandles, MaxOutcomes} \subseteq Nat

VARIABLES strings,   \* the strings allocated with malloc: what each says
          errptr,    \* *errptr: a string, or 0 for NULL
          results,   \* the strings the client was given and has not freed
          handles,   \* kind -> the number of live handles of that kind
          failure,   \* history: the last failure since the client cleared errptr
          outcomes,  \* calls with an errptr so far
          last       \* the last call: its outcome and what it returned

capiVars == <<strings, errptr, results, handles, failure, outcomes, last>>

HandleKinds == {"db", "iterator", "snapshot"}
NoCall == [outcome |-> "none", value |-> 0, before |-> 0]
Says(id) == IF id = 0 THEN "nothing" ELSE strings[id].says

NewString == CHOOSE i \in 1..(MaxStrings + 1) :
                 i \notin DOMAIN strings /\ \A j \in 1..(i - 1) : j \in DOMAIN strings
WithString(f, id, s) == [i \in DOMAIN f \cup {id} |-> IF i = id THEN s ELSE f[i]]
FreeOf(f, S) == [i \in DOMAIN f \ S |-> f[i]]

-----------------------------------------------------------------------------
\* The old message stays allocated (a mistake).
SaveOver(n) == [heap |-> WithString(strings, NewString, [says |-> n]), ptr |-> NewString]

\* SaveError of the n-th failure: strdup of the new message, free of the old.
SaveError(n) ==
    LET heap == FreeOf(strings, {errptr} \ {0})
        id == IF errptr = 0 THEN NewString ELSE errptr
    IN [heap |-> WithString(heap, id, [says |-> n]), ptr |-> id]

Failed(kind) ==
    LET e == SaveError(outcomes + 1)
    IN /\ strings' = e.heap /\ errptr' = e.ptr
       /\ last' = [outcome |-> kind, value |-> 0, before |-> errptr]
       /\ failure' = outcomes + 1

Succeeded(kind, value) ==
    /\ UNCHANGED <<errptr, failure>>
    /\ last' = [outcome |-> kind, value |-> value, before |-> errptr]

CanCall == /\ outcomes < MaxOutcomes
           /\ Cardinality(DOMAIN strings) < MaxStrings
           /\ outcomes' = outcomes + 1

\* leveldb_open; leveldb_close deletes both the database and the handle.
leveldb_open ==
    /\ CanCall /\ handles["db"] = 0
    /\ \/ Succeeded("ok", 0) /\ handles' = [handles EXCEPT !["db"] = 1] /\ UNCHANGED strings
       \/ Failed("error") /\ UNCHANGED handles
    /\ UNCHANGED results
leveldb_close ==
    /\ handles["db"] = 1 /\ handles["iterator"] = 0 /\ handles["snapshot"] = 0
    /\ handles' = [handles EXCEPT !["db"] = 0]
    /\ UNCHANGED <<strings, errptr, results, failure, outcomes, last>>

\* Calls that report through errptr alone.
Reports ==
    /\ CanCall
    /\ (Succeeded("ok", 0) /\ UNCHANGED strings) \/ Failed("error")
    /\ UNCHANGED <<results, handles>>

\* leveldb_put, leveldb_delete and leveldb_write.
leveldb_put == handles["db"] = 1 /\ Reports
\* leveldb_destroy_db and leveldb_repair_db.
leveldb_destroy_db == handles["db"] = 0 /\ Reports
leveldb_iter_get_error == handles["iterator"] > 0 /\ Reports

IsError(s) == s \notin {"ok", "notfound"}

\* leveldb_get; CopyString allocates the value.
leveldb_get ==
    /\ CanCall /\ handles["db"] = 1
    /\ \E s \in {"ok", "notfound", "error"} :
           IF s = "ok"
           THEN /\ strings' = WithString(strings, NewString, [says |-> 0])
                /\ results' = results \cup {NewString}
                /\ Succeeded("found", NewString)
           ELSE /\ UNCHANGED results
                /\ IF IsError(s) THEN Failed(s)
                   ELSE /\ UNCHANGED <<strings, errptr, failure>>
                        /\ last' = [outcome |-> s, value |-> 0, before |-> errptr]
    /\ UNCHANGED handles

\* leveldb_property_value: a copy, or NULL for a property there is not.
leveldb_property_value ==
    /\ CanCall /\ handles["db"] = 1
    /\ \/ /\ strings' = WithString(strings, NewString, [says |-> 0])
          /\ results' = results \cup {NewString} /\ Succeeded("ok", NewString)
       \/ UNCHANGED <<strings, results>> /\ Succeeded("ok", 0)
    /\ UNCHANGED handles

\* The client frees a value, or the message before the next call.
leveldb_free ==
    /\ \/ \E id \in results :
              results' = results \ {id} /\ strings' = FreeOf(strings, {id}) /\ UNCHANGED <<errptr, failure>>
       \/ /\ errptr # 0 /\ strings' = FreeOf(strings, {errptr}) /\ errptr' = 0
          /\ failure' = 0 /\ UNCHANGED results
    /\ last' = NoCall
    /\ UNCHANGED <<handles, outcomes>>

\* leveldb_create_iterator and leveldb_create_snapshot, and their ends.
leveldb_create(kind) ==
    /\ handles["db"] = 1 /\ handles[kind] < MaxHandles
    /\ handles' = [handles EXCEPT ![kind] = @ + 1]
    /\ UNCHANGED <<strings, errptr, results, failure, outcomes, last>>
leveldb_release(kind) ==
    /\ handles[kind] > 0
    /\ handles' = [handles EXCEPT ![kind] = @ - 1]
    /\ UNCHANGED <<strings, errptr, results, failure, outcomes, last>>

CApiInit == /\ strings = [i \in {} |-> [says |-> 0]]
            /\ errptr = 0 /\ results = {} /\ failure = 0 /\ outcomes = 0
            /\ handles = [k \in HandleKinds |-> 0]
            /\ last = NoCall

CApiNext == \/ leveldb_open \/ leveldb_close \/ leveldb_put \/ leveldb_destroy_db
            \/ leveldb_iter_get_error \/ leveldb_get
            \/ leveldb_property_value \/ leveldb_free
            \/ \E k \in HandleKinds \ {"db"} : leveldb_create(k) \/ leveldb_release(k)

CApiSpec == CApiInit /\ [][CApiNext]_capiVars

(***************************************************************************)
(* Every string of the C heap is the message in errptr or a value the      *)
(* client still has to free, whatever the order of failures, values and    *)
(* frees (c.cc:132-150).                                                   *)
(***************************************************************************)
NoStringLeaks ==
    /\ DOMAIN strings = results \cup ({errptr} \ {0})
    /\ errptr \notin results

(***************************************************************************)
(* errptr speaks of the last call that failed since the client cleared it, *)
(* also when calls that succeed follow (c.cc:132).                         *)
(***************************************************************************)
ErrptrIsTheLastFailure == (failure = 0 <=> errptr = 0) /\ (errptr # 0 => Says(errptr) = failure)

(***************************************************************************)
(* A client that cleared errptr can tell the three answers of leveldb_get  *)
(* apart by the value and by errptr (c.cc:197).                            *)
(***************************************************************************)
AnswersAreDistinct ==
    last.before = 0 =>
        /\ last.outcome = "found" => last.value \in results /\ errptr = 0
        /\ last.outcome = "notfound" => last.value = 0 /\ errptr = 0
        /\ last.outcome = "error" => last.value = 0 /\ errptr # 0

\* A caller of the C interface learns what happened and owns what it gets.
CallersKnow ==
  /\ NoStringLeaks
  /\ ErrptrIsTheLastFailure
  /\ AnswersAreDistinct
=============================================================================
