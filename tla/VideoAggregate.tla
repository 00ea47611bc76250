--------------------------- MODULE VideoAggregate ---------------------------
(***************************************************************************)
(* The Video aggregate root (Domain/Models/Video.cs) as pure operators.    *)
(*                                                                         *)
(* A video document is a record: whether it is frozen, the manifest shown  *)
(* as its last valid one, and the manifests it lists.  Manifests are       *)
(* numbered in the order their constructors ran, so the order on numbers   *)
(* is the order on CreationDateTime.  What the aggregate reads of the      *)
(* manifests themselves is their validity, given as a function: "pending"  *)
(* is IsValid = null, "valid" true, "invalid" false.                       *)
(***************************************************************************)
EXTENDS Integers

Validity == {"pending", "valid", "invalid"}

\* LastValidManifest = null.
NoManifest == 0

\* A video just constructed: no manifests, nothing valid, not frozen.
EmptyVideo == [frozen |-> FALSE, last |-> NoManifest, list |-> {}]

-----------------------------------------------------------------------------

\* Mutations of NewestValid: the oldest valid manifest, and any listed one.
OldestValid(list, val) ==
    LET ok == {m \in list : val[m] = "valid"}
    IN  IF \E m \in ok : \A k \in ok : m <= k
        THEN CHOOSE m \in ok : \A k \in ok : m <= k
        ELSE NoManifest

NewestListed(list, val) ==
    IF \E m \in list : \A k \in list : k <= m
    THEN CHOOSE m \in list : \A k \in list : k <= m
    ELSE NoManifest

\* UpdateLastValidManifest: the valid manifest created last, or none.
NewestValid(list, val) ==
    LET ok == {m \in list : val[m] = "valid"}
    IN  IF \E m \in ok : \A k \in ok : k <= m
        THEN CHOOSE m \in ok : \A k \in ok : k <= m
        ELSE NoManifest

\* Mutation of CanAdd: a frozen video accepts manifests.
CanAddFrozen(doc, refOf, r) == \A m \in doc.list : refOf[m] # r

\* AddManifest refuses a frozen video and a reference the video lists already.
CanAdd(doc, refOf, r) == ~doc.frozen /\ \A m \in doc.list : refOf[m] # r

AddManifest(doc, val, m) ==
    LET list == doc.list \cup {m}
    IN  [frozen |-> doc.frozen, last |-> NewestValid(list, val), list |-> list]

\* Mutation of SetOutcome: a failed validation leaves the last valid manifest.
SetOutcomeIfValid(doc, val, m, outcome) ==
    IF outcome = "invalid" THEN doc
    ELSE [doc EXCEPT !.last = NewestValid(doc.list, [val EXCEPT ![m] = outcome])]

\* FailedManifestValidation and SucceededManifestValidation: the outcome is set
\* on the manifest, then the last valid manifest is chosen again.
SetOutcome(doc, val, m, outcome) ==
    [doc EXCEPT !.last = NewestValid(doc.list, [val EXCEPT ![m] = outcome])]

\* Mutation of SetAsUnsuitable: the last valid manifest is not reset.
SetAsUnsuitableKeepLast(doc) == [frozen |-> TRUE, last |-> doc.last, list |-> {}]

SetAsUnsuitable(doc) == [frozen |-> TRUE, last |-> NoManifest, list |-> {}]

\* Mutation of WithoutManifest: the references to the manifest stay.
KeepManifest(doc, m) == doc

\* The document after one of its manifests was deleted: both members map the
\* manifest with OriginDeleteMode.RemoveReference, and neither is recomputed.
WithoutManifest(doc, m) ==
    [frozen |-> doc.frozen,
     last |-> IF doc.last = m THEN NoManifest ELSE doc.last,
     list |-> doc.list \ {m}]

=============================================================================
