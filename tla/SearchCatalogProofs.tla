------------------------- MODULE SearchCatalogProofs -------------------------
(***************************************************************************)
(* Theorems about SearchCatalog: a withdrawn video that is gone stays      *)
(* gone.  The argument is that nothing is read of a video that shows       *)
(* nothing, and a withdrawn video shows nothing.                           *)
(***************************************************************************)
EXTENDS SearchCatalog, TLAPS

LEMMA SourceInitial == SourceInit => SourceTypeOK /\ WithdrawnShowNothing
BY DEF SourceInit, SourceTypeOK, WithdrawnShowNothing

\* A step of the database keeps withdrawn videos withdrawn and without a manifest.
LEMMA SourceStep ==
    ASSUME SourceTypeOK, WithdrawnShowNothing, [SourceNext]_sourceVars
    PROVE  SourceTypeOK' /\ WithdrawnShowNothing' /\ withdrawn \subseteq withdrawn'
<1>1. CASE UNCHANGED sourceVars
    BY <1>1 DEF SourceTypeOK, WithdrawnShowNothing, sourceVars
<1>2. ASSUME NEW v \in Videos, NEW m \in Manifests \cup {NoManifest}, Show(v, m)
      PROVE  SourceTypeOK' /\ WithdrawnShowNothing' /\ withdrawn \subseteq withdrawn'
    BY <1>2 DEF SourceTypeOK, WithdrawnShowNothing, Show
<1>3. ASSUME NEW v \in Videos, Withdraw(v)
      PROVE  SourceTypeOK' /\ WithdrawnShowNothing' /\ withdrawn \subseteq withdrawn'
    BY <1>3 DEF SourceTypeOK, WithdrawnShowNothing, Withdraw
<1>. QED
    BY <1>1, <1>2, <1>3 DEF SourceNext

CatalogInv == CatalogTypeOK /\ WithdrawnShowNothing

\* What every step of the catalog does to the source.
LEMMA CatalogSource ==
    ASSUME CatalogNext PROVE [SourceNext]_sourceVars
BY DEF CatalogNext, Change, Read, Forget, Index, Remove, sourceVars

LEMMA CatalogStep ==
    ASSUME CatalogInv, [CatalogNext]_catalogVars
    PROVE  CatalogInv' /\ \A v \in Videos : Gone(v) => Gone(v)'
<1>. USE DEF CatalogInv, CatalogTypeOK
<1>1. SourceTypeOK' /\ WithdrawnShowNothing' /\ withdrawn \subseteq withdrawn'
    <2>1. [SourceNext]_sourceVars
        BY CatalogSource DEF catalogVars
    <2>. QED
        BY <2>1, SourceStep
<1>2. CASE UNCHANGED catalogVars
    BY <1>1, <1>2 DEF catalogVars, sourceVars, Gone
<1>3. CASE Change
    BY <1>1, <1>3 DEF Change, Gone
<1>4. CASE Read
    <2>1. reads' \in SUBSET (Videos \X Manifests)
        BY <1>4 DEF Read, SourceTypeOK
    <2>2. ASSUME NEW v \in Videos, Gone(v) PROVE Gone(v)'
        <3>1. shown[v] = NoManifest
            BY <2>2 DEF Gone, WithdrawnShowNothing
        <3>. QED
            BY <1>1, <1>4, <2>2, <3>1 DEF Read, Gone
    <2>. QED
        BY <1>1, <1>4, <2>1, <2>2 DEF Read
<1>5. CASE Forget
    BY <1>1, <1>5 DEF Forget, Gone
<1>6. ASSUME NEW v \in Videos, NEW m \in Manifests, Index(v, m)
      PROVE  CatalogInv' /\ \A w \in Videos : Gone(w) => Gone(w)'
    <2>1. catalog' \in [Videos -> Manifests \cup {NoManifest}]
        BY <1>6 DEF Index
    <2>2. ASSUME NEW w \in Videos, Gone(w) PROVE Gone(w)'
        <3>1. w # v
            BY <1>6, <2>2 DEF Index, Gone
        <3>. QED
            BY <1>1, <1>6, <2>2, <3>1 DEF Index, Gone
    <2>. QED
        BY <1>1, <1>6, <2>1, <2>2 DEF Index
<1>7. CASE Remove
    BY <1>1, <1>7 DEF Remove, Gone
<1>. QED
    BY <1>2, <1>3, <1>4, <1>5, <1>6, <1>7 DEF CatalogNext

(* In every state of the catalog, values are of their types, and withdrawn  *)
(* videos show nothing.                                                     *)
THEOREM CatalogInvariant == CatalogSpec => []CatalogInv
<1>1. CatalogInit => CatalogInv
    BY SourceInitial DEF CatalogInit, CatalogInv, CatalogTypeOK, SourceTypeOK
<1>2. CatalogInv /\ [CatalogNext]_catalogVars => CatalogInv'
    BY CatalogStep
<1>. QED
    BY <1>1, <1>2, PTL DEF CatalogSpec

(* IVideoService, "keep video model as a trace": once a withdrawn video has  *)
(* no document and no reader holds it, it never has a document again.        *)
THEOREM CatalogGoneStays == CatalogSpec => GoneStays
<1>1. CatalogInv /\ [CatalogNext]_catalogVars
          => [\A v \in Videos : Gone(v) => Gone(v)']_catalogVars
    BY CatalogStep
<1>. QED
    BY <1>1, CatalogInvariant, PTL DEF CatalogSpec, GoneStays

=============================================================================
