------------------------------ MODULE StoreMap ------------------------------
(***************************************************************************)
(* What RwStore promises (src/src/lib.rs), without slots: a map from the   *)
(* Ids it has given out to elements.  An insertion returns an Id that was  *)
(* never returned before; an Id names its element until one removal takes  *)
(* it, or until the whole store is dropped, once and for all.              *)
(***************************************************************************)
CONSTANTS Elements,     \* the elements inserted
          NoElement     \* the element is gone; None as an answer

VARIABLES elements,     \* Id -> its element, or NoElement after its removal
          out,          \* the last answer: for which Id, and which element
          alive         \* the store was not dropped

vars == <<elements, out, alive>>

Ids == DOMAIN elements

Answer(id, e) == out' = [id |-> id, element |-> e]

Init ==
    /\ elements = [id \in {} |-> NoElement]
    /\ out = [id |-> NoElement, element |-> NoElement]
    /\ alive = TRUE

\* The returned Id is new; which one it is, is up to the implementation.
Insert ==
    /\ alive /\ UNCHANGED alive
    /\ LET new == out'.id
       IN  /\ new \notin Ids
           /\ \E e \in Elements :
                  /\ Answer(new, e)
                  /\ elements' = [id \in Ids \cup {new} |->
                                     IF id = new THEN e ELSE elements[id]]

\* read, write, get_mut, and iter_mut for the elements it yields
Access(id) ==
    /\ alive /\ UNCHANGED alive
    /\ Answer(id, elements[id])
    /\ UNCHANGED elements

\* remove, remove_locked, and into_iter for the elements it yields
Remove(id) ==
    /\ alive /\ UNCHANGED alive
    /\ Answer(id, elements[id])
    /\ elements' = [elements EXCEPT ![id] = NoElement]

\* The store, or an iterator that owns it, is dropped.
DropAll ==
    /\ alive /\ alive' = FALSE
    /\ elements' = [id \in Ids |-> NoElement]
    /\ UNCHANGED out

Next == Insert \/ DropAll \/ \E id \in Ids : Access(id) \/ Remove(id)

Spec == Init /\ [][Next]_vars
=============================================================================
