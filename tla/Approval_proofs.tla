--------------------------- MODULE Approval_proofs ---------------------------
(***************************************************************************)
(* The approval service, for any number of flows, documents, instances,    *)
(* administrators and requests.                                            *)
(*                                                                         *)
(* ApprovalDefinitions: a band never has two flows in force, the base band *)
(* is never left without one and what was retired stays so. Numbering says *)
(* why: nobody inserts a row of a band beside one he has not seen.         *)
(*                                                                         *)
(* ApprovalEngine: its invariants, and that it implements ApprovalDesk.    *)
(***************************************************************************)
EXTENDS ApprovalEngine, ApprovalDefinitions, TLAPS

-----------------------------------------------------------------------------
(* The flows an administrator keeps.                                       *)

(* Versions of a band have no gaps, a version about to be saved is above   *)
(* every committed one it has seen, and what a submission is seeding is    *)
(* the first version of a band that has none: the unique key's work.       *)
Numbering ==
  /\ \A row \in Existing, u \in Versions : u < row[2] => <<row[1], u>> \in Existing
  /\ \A a \in Savers, u \in Versions :
       saving[a] # None /\ u < saving[a][2] => <<saving[a][1], u>> \in Existing
  /\ \A s \in Seeders : \A row \in pending[s].rows :
       /\ row[2] = 1 /\ row \notin Existing
       /\ \A other \in Seeders \ {s} : row \notin pending[other].rows

DefinitionsInv == DefinitionsTypeOK /\ Numbering /\ OneActivePerBand

LEMMA RowOfPair ==
  /\ \A b \in Bands, v \in Versions : <<b, v>> \in Rows /\ <<b, v>>[1] = b /\ <<b, v>>[2] = v
  /\ \A row \in Rows : row = <<row[1], row[2]>> /\ row[1] \in Bands /\ row[2] \in Versions
  BY DEF Rows

LEMMA TypePreserved ==
  ASSUME DefinitionsTypeOK, [DefinitionsNext]_definitionVars
  PROVE  DefinitionsTypeOK'
  <1>. USE BandAssumption, NodesAssumption DEF DefinitionsTypeOK
  <1>1. ASSUME NEW a \in Savers, NEW b \in Bands, NEW n \in Versions, ReadVersion(a, b, n)
        PROVE DefinitionsTypeOK'
    BY <1>1, RowOfPair DEF ReadVersion
  <1>2. ASSUME NEW a \in Savers, NEW N \in Saved, Save(a, N) PROVE DefinitionsTypeOK'
    <2>1. N \in SUBSET (Nat \ {0})
      OBVIOUS
    <2>2. nodes' \in [Rows -> SUBSET (Nat \ {0})]
      BY <1>2, <2>1 DEF Save
    <2>3. flowStatus' \in [Rows -> {"absent", "ACTIVE", "INACTIVE"}]
      BY <1>2 DEF Save
    <2>. QED  BY <1>2, <2>2, <2>3 DEF Save
  <1>3. ASSUME NEW a \in Savers, SaveFails(a) PROVE DefinitionsTypeOK'
    BY <1>3 DEF SaveFails
  <1>4. ASSUME NEW b \in Bands, DeleteBand(b) PROVE DefinitionsTypeOK'
    BY <1>4 DEF DeleteBand
  <1>5. ASSUME NEW s \in Seeders, CountNone(s) PROVE DefinitionsTypeOK'
    BY <1>5 DEF CountNone
  <1>6. Nothing \in PendingType
    BY DEF Nothing, PendingType
  <1>7. ASSUME NEW s \in Seeders, SeedCommit(s) PROVE DefinitionsTypeOK'
    <2>1. \A r \in Rows : pending[s].nodes[r] \in SUBSET (Nat \ {0})
      BY DEF PendingType
    <2>2. nodes' \in [Rows -> SUBSET (Nat \ {0})]
      BY <1>7, <2>1 DEF SeedCommit
    <2>. QED  BY <1>6, <1>7, <2>2 DEF SeedCommit
  <1>8. ASSUME NEW s \in Seeders, SeedRollback(s) PROVE DefinitionsTypeOK'
    BY <1>6, <1>8 DEF SeedRollback
  <1>9. ASSUME NEW s \in Seeders, NEW b \in Bands, SeedBand(s, b) PROVE DefinitionsTypeOK'
    <2>. DEFINE row == <<b, 1>>
                kept == DefaultNodes[b] \ nodes[row]
    <2>1. row \in Rows
      BY RowOfPair DEF Versions
    <2>2. kept \in SUBSET (Nat \ {0})
      BY <1>9 DEF SeedBand
    <2>3. pending[s] \in PendingType
      OBVIOUS
    <2>4. [pending[s].nodes EXCEPT ![row] = kept] \in [Rows -> SUBSET (Nat \ {0})]
      BY <2>1, <2>2, <2>3 DEF PendingType
    <2>. DEFINE rows == IF row \notin Existing THEN pending[s].rows \union {row} ELSE pending[s].rows
    <2>5. pending' = [pending EXCEPT ![s] =
            [bands |-> pending[s].bands \union {b}, rows |-> rows,
             nodes |-> [pending[s].nodes EXCEPT ![row] = kept]]]
      BY <1>9, <2>3 DEF SeedBand, PendingType
    <2>6. [bands |-> pending[s].bands \union {b}, rows |-> rows,
           nodes |-> [pending[s].nodes EXCEPT ![row] = kept]] \in PendingType
      BY <2>1, <2>3, <2>4 DEF PendingType
    <2>. HIDE DEF rows, kept, row
    <2>7. pending' \in [Seeders -> PendingType]
      BY <2>5, <2>6
    <2>. QED  BY <1>9, <2>7 DEF SeedBand
  <1>. QED
    BY <1>1, <1>2, <1>3, <1>4, <1>5, <1>7, <1>8, <1>9 DEF DefinitionsNext, definitionVars

LEMMA DefinitionsInvInit == DefinitionsInit => DefinitionsInv
  <1>. SUFFICES ASSUME DefinitionsInit PROVE DefinitionsInv
    OBVIOUS
  <1>1. DefinitionsTypeOK
    BY DEF DefinitionsInit, DefinitionsTypeOK, Nothing, PendingType
  <1>2. Existing = {}
    BY DEF DefinitionsInit, Existing
  <1>3. \A s \in Seeders : pending[s].rows = {}
    BY DEF DefinitionsInit, Nothing
  <1>4. Numbering
    BY <1>2, <1>3 DEF DefinitionsInit, Numbering
  <1>5. OneActivePerBand
    BY RowOfPair DEF DefinitionsInit, OneActivePerBand
  <1>. QED  BY <1>1, <1>4, <1>5 DEF DefinitionsInv

(* What a save and a seeding commit do to the rows.                        *)
LEMMA SavedRows ==
  ASSUME DefinitionsInv, NEW a \in Savers, NEW N \in Saved, Save(a, N)
  PROVE  /\ saving[a] \in Rows \ Existing
         /\ Existing' = Existing \union {saving[a]}
         /\ flowStatus'[saving[a]] = "ACTIVE"
         /\ \A r \in Rows \ {saving[a]} : flowStatus'[r] =
              IF r[1] = saving[a][1] /\ flowStatus[r] = "ACTIVE" THEN "INACTIVE" ELSE flowStatus[r]
  BY DEF DefinitionsInv, DefinitionsTypeOK, Save, Existing

LEMMA SeededRows ==
  ASSUME DefinitionsInv, NEW s \in Seeders, SeedCommit(s)
  PROVE  /\ pending[s].rows \subseteq Rows \ Existing
         /\ Existing' = Existing \union pending[s].rows
         /\ \A r \in Rows : flowStatus'[r] = IF r \in pending[s].rows THEN "ACTIVE" ELSE flowStatus[r]
  BY DEF DefinitionsInv, DefinitionsTypeOK, PendingType, Numbering, SeedCommit, Existing

LEMMA NumberingPreserved ==
  ASSUME DefinitionsInv, [DefinitionsNext]_definitionVars
  PROVE  Numbering'
  <1>. USE DEF Numbering
  <1>0. DefinitionsTypeOK /\ Numbering /\ DefinitionsTypeOK'
    BY TypePreserved DEF DefinitionsInv
  <1>. USE BandAssumption DEF Versions
  <1>1. ASSUME NEW a \in Savers, NEW b \in Bands, NEW n \in Versions, ReadVersion(a, b, n)
        PROVE Numbering'
    <2>1. Existing' = Existing /\ pending' = pending
      BY <1>1 DEF ReadVersion, Existing
    <2>2. \A c \in Savers : c # a => saving'[c] = saving[c]
      BY <1>0, <1>1 DEF ReadVersion, DefinitionsTypeOK
    <2>3. saving'[a] = <<b, n>>
      BY <1>0, <1>1 DEF ReadVersion, DefinitionsTypeOK
    <2>4. ASSUME NEW u \in Versions, u < n PROVE <<b, u>> \in Existing
      <3>1. <<b, n - 1>> \in Existing
        BY <1>1, <2>4 DEF ReadVersion, IsNextVersion
      <3>2. CASE u = n - 1
        BY <3>1, <3>2
      <3>3. CASE u < n - 1
        BY <1>0, <3>1, <3>3
      <3>. QED  BY <2>4, <3>2, <3>3
    <2>5. \A c \in Savers, u \in Versions :
            saving'[c] # None /\ u < saving'[c][2] => <<saving'[c][1], u>> \in Existing
      BY <1>0, <2>2, <2>3, <2>4
    <2>. QED  BY <1>0, <2>1, <2>5
  <1>2. ASSUME NEW a \in Savers, NEW N \in Saved, Save(a, N) PROVE Numbering'
    <2>. DEFINE new == saving[a]
    <2>1. new \in Rows \ Existing /\ Existing' = Existing \union {new}
      BY <1>2, SavedRows
    <2>2. new # None /\ new \notin Uncommitted /\ pending' = pending
      BY <1>2 DEF Save
    <2>3. \A u \in Versions : u < new[2] => <<new[1], u>> \in Existing
      BY <1>0, <2>2
    <2>4. \A c \in Savers : saving'[c] = IF c = a THEN None ELSE saving[c]
      BY <1>0, <1>2 DEF Save, DefinitionsTypeOK
    <2>5. \A s \in Seeders : new \notin pending[s].rows
      BY <2>2 DEF Uncommitted
    <2>. HIDE DEF new
    <2>6. \A row \in Existing', u \in Versions : u < row[2] => <<row[1], u>> \in Existing'
      BY <1>0, <2>1, <2>3
    <2>7. \A c \in Savers, u \in Versions :
            saving'[c] # None /\ u < saving'[c][2] => <<saving'[c][1], u>> \in Existing'
      BY <1>0, <2>1, <2>4
    <2>8. \A s \in Seeders : \A row \in pending'[s].rows :
            /\ row[2] = 1 /\ row \notin Existing'
            /\ \A other \in Seeders \ {s} : row \notin pending'[other].rows
      BY <1>0, <2>1, <2>2, <2>5
    <2>. QED  BY <2>6, <2>7, <2>8
  <1>3. ASSUME NEW a \in Savers, SaveFails(a) PROVE Numbering'
    <2>1. Existing' = Existing /\ pending' = pending
      BY <1>3 DEF SaveFails, Existing
    <2>2. \A c \in Savers : saving'[c] = IF c = a THEN None ELSE saving[c]
      BY <1>0, <1>3 DEF SaveFails, DefinitionsTypeOK
    <2>. QED  BY <1>0, <2>1, <2>2
  <1>4. ASSUME NEW b \in Bands, DeleteBand(b) PROVE Numbering'
    <2>1. Existing' = Existing
      BY <1>0, <1>4 DEF DeleteBand, Existing, DefinitionsTypeOK
    <2>. QED  BY <1>0, <1>4, <2>1 DEF DeleteBand
  <1>5. ASSUME NEW s \in Seeders, CountNone(s) PROVE Numbering'
    BY <1>0, <1>5 DEF CountNone, Existing
  <1>6. ASSUME NEW s \in Seeders, SeedCommit(s) PROVE Numbering'
    <2>. DEFINE new == pending[s].rows
    <2>1. Existing' = Existing \union new /\ saving' = saving
      BY <1>6, SeededRows DEF SeedCommit
    <2>2. \A t \in Seeders : pending'[t] = IF t = s THEN Nothing ELSE pending[t]
      BY <1>0, <1>6 DEF SeedCommit, DefinitionsTypeOK
    <2>3. \A row \in new : row[2] = 1
      BY <1>0
    <2>4. \A t \in Seeders \ {s} : \A row \in pending[t].rows : row \notin new
      BY <1>0
    <2>5. Nothing.rows = {}
      BY DEF Nothing
    <2>. HIDE DEF new
    <2>6. \A row \in Existing', u \in Versions : u < row[2] => <<row[1], u>> \in Existing'
      BY <1>0, <2>1, <2>3
    <2>7. \A t \in Seeders : \A row \in pending'[t].rows :
            /\ row[2] = 1 /\ row \notin Existing'
            /\ \A other \in Seeders \ {t} : row \notin pending'[other].rows
      BY <1>0, <2>1, <2>2, <2>4, <2>5
    <2>. QED  BY <1>0, <2>1, <2>6, <2>7
  <1>7. ASSUME NEW s \in Seeders, SeedRollback(s) PROVE Numbering'
    <2>1. Existing' = Existing /\ saving' = saving
      BY <1>7 DEF SeedRollback, Existing
    <2>2. \A t \in Seeders : pending'[t] = IF t = s THEN Nothing ELSE pending[t]
      BY <1>0, <1>7 DEF SeedRollback, DefinitionsTypeOK
    <2>. QED  BY <1>0, <2>1, <2>2 DEF Nothing
  <1>8. ASSUME NEW s \in Seeders, NEW b \in Bands, SeedBand(s, b) PROVE Numbering'
    <2>. DEFINE new == <<b, 1>>
    <2>1. Existing' = Existing /\ saving' = saving
      BY <1>8 DEF SeedBand, Existing
    <2>2. \A t \in Seeders \ {s} : pending'[t] = pending[t]
      BY <1>0, <1>8 DEF SeedBand, DefinitionsTypeOK
    <2>3. pending'[s].rows = IF new \notin Existing THEN pending[s].rows \union {new} ELSE pending[s].rows
      BY <1>0, <1>8 DEF SeedBand, DefinitionsTypeOK, PendingType
    <2>4. \A other \in Seeders \ {s} : new \notin pending[other].rows
      BY <1>8 DEF SeedBand
    <2>5. new[2] = 1
      OBVIOUS
    <2>. HIDE DEF new
    <2>6. \A t \in Seeders : \A row \in pending'[t].rows :
            /\ row[2] = 1 /\ row \notin Existing
            /\ \A other \in Seeders \ {t} : row \notin pending'[other].rows
      BY <1>0, <2>2, <2>3, <2>4, <2>5
    <2>. QED  BY <1>0, <2>1, <2>6
  <1>9. CASE UNCHANGED definitionVars
    BY <1>0, <1>9 DEF definitionVars, Existing
  <1>. QED
    BY <1>1, <1>2, <1>3, <1>4, <1>5, <1>6, <1>7, <1>8, <1>9 DEF DefinitionsNext

LEMMA OneActivePreserved ==
  ASSUME DefinitionsInv, [DefinitionsNext]_definitionVars
  PROVE  OneActivePerBand'
  <1>0. DefinitionsTypeOK /\ Numbering /\ OneActivePerBand
    BY DEF DefinitionsInv
  <1>1. ASSUME NEW a \in Savers, NEW N \in Saved, Save(a, N) PROVE OneActivePerBand'
    <2>1. SUFFICES ASSUME NEW b \in Bands, NEW v \in Versions,
                          flowStatus'[<<b, v>>] = "ACTIVE", b = saving[a][1]
                   PROVE  <<b, v>> = saving[a]
      BY <1>0, <1>1, SavedRows, RowOfPair DEF OneActivePerBand
    <2>. QED  BY <1>1, <2>1, SavedRows, RowOfPair
  <1>2. ASSUME NEW s \in Seeders, SeedCommit(s) PROVE OneActivePerBand'
    <2>1. ASSUME NEW b \in Bands, NEW v \in Versions, NEW w \in Versions,
                 <<b, v>> \in pending[s].rows, flowStatus'[<<b, w>>] = "ACTIVE"
          PROVE  v = w
      <3>1. v = 1 /\ <<b, 1>> \notin Existing
        BY <1>0, <2>1, RowOfPair DEF Numbering
      <3>2. <<b, w>> \notin Existing
        BY <1>0, <3>1, RowOfPair, BandAssumption DEF Numbering, Versions
      <3>3. <<b, w>> \in pending[s].rows
        BY <1>0, <1>2, <2>1, <3>2, SeededRows, RowOfPair DEF Existing
      <3>. QED  BY <1>0, <3>1, <3>3, RowOfPair DEF Numbering
    <2>2. SUFFICES ASSUME NEW b \in Bands, NEW v \in Versions, NEW w \in Versions,
                          flowStatus'[<<b, v>>] = "ACTIVE", flowStatus'[<<b, w>>] = "ACTIVE"
                   PROVE  v = w
      BY DEF OneActivePerBand
    <2>3. CASE <<b, v>> \in pending[s].rows \/ <<b, w>> \in pending[s].rows
      BY <2>1, <2>2, <2>3
    <2>4. CASE <<b, v>> \notin pending[s].rows /\ <<b, w>> \notin pending[s].rows
      BY <1>0, <1>2, <2>2, <2>4, SeededRows, RowOfPair DEF OneActivePerBand
    <2>. QED  BY <2>3, <2>4
  <1>3. ASSUME NEW b \in Bands, DeleteBand(b) PROVE OneActivePerBand'
    <2>1. \A r \in Rows : flowStatus'[r] = "ACTIVE" => flowStatus[r] = "ACTIVE"
      BY <1>3 DEF DeleteBand
    <2>. QED  BY <1>0, <2>1, RowOfPair DEF OneActivePerBand
  <1>4. CASE UNCHANGED flowStatus
    BY <1>0, <1>4 DEF OneActivePerBand
  <1>. QED
    BY <1>1, <1>2, <1>3, <1>4
    DEF DefinitionsNext, definitionVars, ReadVersion, SaveFails, CountNone, SeedRollback, SeedBand

LEMMA DefinitionsInvHolds == DefinitionsSpec => []DefinitionsInv
  <1>1. DefinitionsInv /\ [DefinitionsNext]_definitionVars => DefinitionsInv'
    BY TypePreserved, NumberingPreserved, OneActivePreserved DEF DefinitionsInv
  <1>. QED  BY DefinitionsInvInit, <1>1, PTL DEF DefinitionsSpec

(* The rows, the requests and the open transactions keep their types.      *)
THEOREM DefinitionsTypeInvariant == DefinitionsSpec => []DefinitionsTypeOK
  BY DefinitionsInvHolds, PTL DEF DefinitionsInv

(* Whoever saves and whoever seeds at the same time: a document of any     *)
(* amount has at most one flow to go through.                              *)
THEOREM OneFlowInForce == DefinitionsSpec => []OneActivePerBand
  BY DefinitionsInvHolds, PTL DEF DefinitionsInv

(* No save, retirement or seeding leaves a company that has flows without  *)
(* one for the smallest amounts.                                           *)
THEOREM BaseBandHolds == DefinitionsSpec => []BaseBandStays
  <1>1. DefinitionsInit => BaseBandStays
    BY DEF DefinitionsInit, BaseBandStays, Existing
  <1>2. DefinitionsInv /\ BaseBandStays /\ [DefinitionsNext]_definitionVars => BaseBandStays'
    <2>. SUFFICES ASSUME DefinitionsInv, BaseBandStays, [DefinitionsNext]_definitionVars PROVE BaseBandStays'
      OBVIOUS
    <2>0. DefinitionsTypeOK /\ Base \in Bands
      BY BandAssumption DEF DefinitionsInv, Base
    <2>1. ASSUME NEW a \in Savers, NEW N \in Saved, Save(a, N) PROVE BaseBandStays'
      <3>1. CASE saving[a][1] = Base
        BY <2>1, <3>1, SavedRows, RowOfPair DEF BaseBandStays
      <3>2. CASE saving[a][1] # Base
        BY <2>0, <2>1, <3>2, SavedRows, RowOfPair DEF BaseBandStays
      <3>. QED  BY <3>1, <3>2
    <2>2. ASSUME NEW s \in Seeders, SeedCommit(s) PROVE BaseBandStays'
      BY <2>0, <2>2, SeededRows, RowOfPair DEF BaseBandStays
    <2>3. ASSUME NEW b \in Bands, DeleteBand(b) PROVE BaseBandStays'
      <3>1. b # Base /\ \A r \in Rows : r[1] # b => flowStatus'[r] = flowStatus[r]
        BY <2>3 DEF DeleteBand
      <3>2. \A v \in Versions : flowStatus'[<<Base, v>>] = flowStatus[<<Base, v>>]
        BY <2>0, <3>1, RowOfPair
      <3>. QED  BY <2>0, <3>2, RowOfPair DEF BaseBandStays, Existing
    <2>4. CASE UNCHANGED flowStatus
      BY <2>4 DEF BaseBandStays, Existing
    <2>. QED
      BY <2>1, <2>2, <2>3, <2>4
      DEF DefinitionsNext, definitionVars, ReadVersion, SaveFails, CountNone, SeedRollback, SeedBand
  <1>. QED  BY <1>1, <1>2, DefinitionsInvHolds, PTL DEF DefinitionsSpec

(* Seeding, saving and retiring never bring back a flow that was retired.  *)
THEOREM RetirementIsFinal == DefinitionsSpec => RetiredStaysRetired
  <1>1. DefinitionsInv /\ [DefinitionsNext]_definitionVars =>
          [\A row \in Rows : flowStatus[row] = "INACTIVE" => flowStatus'[row] = "INACTIVE"]_definitionVars
    <2>. SUFFICES ASSUME DefinitionsInv, DefinitionsNext, NEW row \in Rows, flowStatus[row] = "INACTIVE"
                  PROVE  flowStatus'[row] = "INACTIVE"
      OBVIOUS
    <2>0. DefinitionsTypeOK /\ row \in Existing
      BY DEF DefinitionsInv, Existing
    <2>1. ASSUME NEW a \in Savers, NEW N \in Saved, Save(a, N) PROVE flowStatus'[row] = "INACTIVE"
      BY <2>0, <2>1, SavedRows
    <2>2. ASSUME NEW s \in Seeders, SeedCommit(s) PROVE flowStatus'[row] = "INACTIVE"
      BY <2>0, <2>2, SeededRows
    <2>3. ASSUME NEW b \in Bands, DeleteBand(b) PROVE flowStatus'[row] = "INACTIVE"
      BY <2>0, <2>3 DEF DeleteBand, DefinitionsTypeOK
    <2>. QED
      BY <2>1, <2>2, <2>3
      DEF DefinitionsNext, ReadVersion, SaveFails, CountNone, SeedRollback, SeedBand
  <1>. QED  BY <1>1, DefinitionsInvHolds, PTL DEF RetiredStaysRetired, DefinitionsSpec

(* Seeding adds steps to first versions only. VersionsStayAsSaved fails    *)
(* by it, and OnlySeedingAddsNodes says by nothing else.                   *)
SeedsFirst == \A s \in Seeders : \A row \in Rows : pending[s].nodes[row] # {} => row[2] = 1

OnlySeedingAddsNodes ==
  [][\A row \in Existing :
       /\ nodes[row] \subseteq nodes'[row]
       /\ nodes'[row] # nodes[row] => row[2] = 1 /\ \E s \in Seeders : SeedCommit(s)]_definitionVars

LEMMA SeedsFirstHolds == DefinitionsSpec => []SeedsFirst
  <1>1. DefinitionsInit => SeedsFirst
    BY DEF DefinitionsInit, SeedsFirst, Nothing
  <1>2. DefinitionsInv /\ SeedsFirst /\ [DefinitionsNext]_definitionVars => SeedsFirst'
    <2>. SUFFICES ASSUME DefinitionsInv, SeedsFirst, [DefinitionsNext]_definitionVars PROVE SeedsFirst'
      OBVIOUS
    <2>0. pending \in [Seeders -> PendingType]
      BY DEF DefinitionsInv, DefinitionsTypeOK
    <2>1. ASSUME NEW s \in Seeders, SeedCommit(s) \/ SeedRollback(s) PROVE SeedsFirst'
      <3>1. \A t \in Seeders : pending'[t] = IF t = s THEN Nothing ELSE pending[t]
        BY <2>0, <2>1 DEF SeedCommit, SeedRollback
      <3>2. \A row \in Rows : Nothing.nodes[row] = {}
        BY DEF Nothing
      <3>. QED  BY <3>1, <3>2 DEF SeedsFirst
    <2>2. ASSUME NEW s \in Seeders, NEW b \in Bands, SeedBand(s, b) PROVE SeedsFirst'
      <3>. DEFINE new == <<b, 1>>
      <3>1. /\ \A t \in Seeders \ {s} : pending'[t] = pending[t]
            /\ \A row \in Rows \ {new} : pending'[s].nodes[row] = pending[s].nodes[row]
        BY <2>0, <2>2 DEF SeedBand, PendingType
      <3>2. new[2] = 1
        OBVIOUS
      <3>. HIDE DEF new
      <3>. QED  BY <3>1, <3>2 DEF SeedsFirst
    <2>3. CASE pending' = pending
      BY <2>3 DEF SeedsFirst
    <2>. QED
      BY <2>1, <2>2, <2>3
      DEF DefinitionsNext, definitionVars, ReadVersion, Save, SaveFails, DeleteBand, CountNone
  <1>. QED  BY <1>1, <1>2, DefinitionsInvHolds, PTL DEF DefinitionsSpec

(* A version that instances run by loses no step and gains one only when a *)
(* transaction that had counted no flows commits its seed, into a first    *)
(* version: no save or retirement touches it (SaveDefinition, DeleteBand,  *)
(* seedDefaultFlows).                                                      *)
THEOREM OnlySeedingChangesVersions == DefinitionsSpec => OnlySeedingAddsNodes
  <1>. DEFINE Kept == \A row \in Existing :
         /\ nodes[row] \subseteq nodes'[row]
         /\ nodes'[row] # nodes[row] => row[2] = 1 /\ \E s \in Seeders : SeedCommit(s)
  <1>1. DefinitionsInv /\ SeedsFirst /\ [DefinitionsNext]_definitionVars => [Kept]_definitionVars
    <2>. SUFFICES ASSUME DefinitionsInv, SeedsFirst, DefinitionsNext PROVE Kept
      OBVIOUS
    <2>0. nodes \in [Rows -> SUBSET (Nat \ {0})] /\ Existing \subseteq Rows
      BY DEF DefinitionsInv, DefinitionsTypeOK, Existing
    <2>1. ASSUME NEW a \in Savers, NEW N \in Saved, Save(a, N) PROVE Kept
      <3>1. \A row \in Existing : nodes'[row] = nodes[row]
        BY <2>0, <2>1 DEF Save
      <3>. QED  BY <3>1
    <2>2. ASSUME NEW s \in Seeders, SeedCommit(s) PROVE Kept
      <3>1. \A row \in Rows : nodes'[row] = nodes[row] \union pending[s].nodes[row]
        BY <2>2 DEF SeedCommit
      <3>2. \A row \in Existing : nodes'[row] # nodes[row] => row[2] = 1
        BY <2>0, <3>1 DEF SeedsFirst
      <3>. QED  BY <2>0, <2>2, <3>1, <3>2
    <2>3. CASE nodes' = nodes
      BY <2>3
    <2>. HIDE DEF Kept
    <2>. QED
      BY <2>1, <2>2, <2>3
      DEF DefinitionsNext, ReadVersion, SaveFails, DeleteBand, CountNone, SeedRollback, SeedBand
  <1>2. OnlySeedingAddsNodes <=> [][Kept]_definitionVars
    BY PTL DEF OnlySeedingAddsNodes
  <1>. QED  BY <1>1, <1>2, DefinitionsInvHolds, SeedsFirstHolds, PTL DEF DefinitionsSpec

-----------------------------------------------------------------------------
(* The engine.                                                             *)

-----------------------------------------------------------------------------
(* Who is asked.                                                           *)

Asked == [step : Steps, staff : SUBSET People]

(* A flow version that is active for some document.                        *)
LEMMA FlowShape ==
  ASSUME NEW d \in Docs, NEW f \in Flows[d]
  PROVE  f \in FlowVersions /\ 1 \in DOMAIN f /\ DOMAIN f \subseteq Steps
<1>1. f \in FlowVersions
  BY DEF FlowVersions
<1> QED
  BY <1>1, FlowAssumption

(* firstStaffedNode answers with a step of the flow from k on and somebody *)
(* to assign there, or with nothing.                                       *)
LEMMA FirstStaffedShape ==
  ASSUME NEW f \in FlowVersions, NEW k \in Nat, NEW o \in FirstStaffed(f, k), o # Nil
  PROVE  o \in Asked /\ o.step >= k /\ o.staff # {}
<1>1. PICK j \in DOMAIN f : j >= k /\ o \in [step : {j}, staff : f[j].staff \ {{}}]
  BY DEF FirstStaffed
<1>2. j \in Steps
  BY FlowAssumption
<1>3. f[j].staff \subseteq SUBSET People
  <2>1. f \in Seq([mode : {"ANY", "ALL"}, staff : SUBSET (SUBSET People)])
    BY FlowAssumption
  <2>2. f[j] \in [mode : {"ANY", "ALL"}, staff : SUBSET (SUBSET People)]
    <3> DEFINE S == [mode : {"ANY", "ALL"}, staff : SUBSET (SUBSET People)]
    <3>1. f \in Seq(S)
      BY <2>1
    <3> HIDE DEF S
    <3>2. j \in 1..Len(f)
      BY <3>1
    <3>3. f[j] \in S
      BY <3>1, <3>2
    <3> QED
      BY <3>3 DEF S
  <2> QED
    BY <2>2
<1>4. o.step = j /\ o.staff \in f[j].staff \ {{}}
  BY <1>1
<1>5. o = [step |-> o.step, staff |-> o.staff]
  BY <1>1
<1> QED
  BY <1>1, <1>2, <1>3, <1>4, <1>5 DEF Asked

(* Whoever Submit asks, a step and somebody at it; and it never asks       *)
(* nobody about a contract or a purchase order.                            *)
LEMMA FirstAskedShape ==
  ASSUME NEW d \in Docs, NEW f \in Flows[d], NEW o \in FirstAsked(d, f)
  PROVE  /\ o # Nil => o \in Asked /\ o.step >= 1 /\ o.staff # {}
         /\ Kind[d] \in {"CONTRACT", "PURCHASE_ORDER"} => o # Nil
<1>1. f \in FlowVersions /\ 1 \in Steps /\ Submitter[d] \in People
  BY FlowShape, PeopleAssumption
<1>2. \A x \in FirstStaffed(f, 1) : x # Nil => x \in Asked /\ x.step >= 1 /\ x.staff # {}
  BY <1>1, FirstStaffedShape
<1>3. Nil \notin Asked
  BY NilAssumption DEF Asked
<1>4. CASE Kind[d] = "CONTRACT"
  <2>1. o \in AskedForContract(d, f)
    BY <1>4 DEF FirstAsked
  <2>2. CASE Submitter[d] \in SelfConfirmers
    <3>1. PICK x \in FirstStaffed(f, 1) : o = [step |-> 1, staff |-> StaffOf(x) \union {Submitter[d]}]
      BY <2>1, <2>2 DEF AskedForContract
    <3>2. StaffOf(x) \subseteq People
      BY <1>2 DEF StaffOf, Asked
    <3>3. o.step = 1 /\ o.staff = StaffOf(x) \union {Submitter[d]}
      BY <3>1
    <3>4. o \in Asked
      BY <3>1, <3>2, <1>1 DEF Asked
    <3> QED
      BY <3>3, <3>4, <1>3
  <2>3. CASE Submitter[d] \notin SelfConfirmers
    <3>1. \/ \E x \in FirstStaffed(f, 1) :
               /\ StaffOf(x) \ {Submitter[d]} # {}
               /\ o = [step |-> x.step, staff |-> x.staff \ {Submitter[d]}]
          \/ o \in [step : {1}, staff : {B \in {Bosses \ {Submitter[d]}} : B # {}}]
      BY <2>1, <2>3 DEF AskedForContract
    <3>2. ASSUME NEW x \in FirstStaffed(f, 1), StaffOf(x) \ {Submitter[d]} # {},
                 o = [step |-> x.step, staff |-> x.staff \ {Submitter[d]}]
          PROVE  o \in Asked /\ o.step >= 1 /\ o.staff # {}
      <4>1. x # Nil /\ StaffOf(x) = x.staff
        BY <3>2 DEF StaffOf
      <4>2. x.step \in Steps /\ x.staff \subseteq People /\ x.step >= 1
        BY <4>1, <1>2 DEF Asked
      <4>3. o.step = x.step /\ o.staff = x.staff \ {Submitter[d]}
        BY <3>2
      <4>4. o \in Asked
        BY <3>2, <4>2 DEF Asked
      <4> QED
        BY <4>1, <4>2, <4>3, <4>4, <3>2
    <3>3. ASSUME o \in [step : {1}, staff : {B \in {Bosses \ {Submitter[d]}} : B # {}}]
          PROVE  o \in Asked /\ o.step >= 1 /\ o.staff # {}
      <4>1. o.step = 1 /\ o.staff = Bosses \ {Submitter[d]} /\ o.staff # {}
        BY <3>3
      <4>2. o = [step |-> 1, staff |-> Bosses \ {Submitter[d]}]
        BY <3>3
      <4>3. o \in Asked
        BY <4>2, <1>1, PeopleAssumption DEF Asked
      <4> QED
        BY <4>1, <4>3
    <3> QED
      BY <3>1, <3>2, <3>3, <1>3
  <2> QED
    BY <2>2, <2>3
<1>5. CASE Kind[d] = "PURCHASE_ORDER"
  <2> DEFINE F == Others(IF Buyers = {} THEN Admins ELSE Buyers, Submitter[d])
  <2>1. o \in AskedForOrder(d, f)
    BY <1>5 DEF FirstAsked
  <2>2. o \in FirstStaffed(f, 1) \ {Nil} \/ o \in [step : {1}, staff : {B \in {F} : B # {}}]
    BY <2>1 DEF AskedForOrder
  <2>3. F \subseteq People
    BY PeopleAssumption DEF Others
  <2>4. ASSUME o \in [step : {1}, staff : {B \in {F} : B # {}}]
        PROVE  o \in Asked /\ o.step >= 1 /\ o.staff # {}
    <3> HIDE DEF F
    <3>1. o.step = 1 /\ o.staff = F /\ o.staff # {}
      BY <2>4
    <3>2. o = [step |-> 1, staff |-> F]
      BY <2>4
    <3> QED
      BY <3>1, <3>2, <2>3, <1>1 DEF Asked
  <2> HIDE DEF F
  <2> QED
    BY <2>2, <2>4, <1>2, <1>3
<1>6. CASE Kind[d] \notin {"CONTRACT", "PURCHASE_ORDER"}
  BY <1>6, <1>2 DEF FirstAsked
<1> QED
  BY <1>4, <1>5, <1>6

-----------------------------------------------------------------------------
(* What Act does to the tasks of an instance.                              *)

Tables == [Steps -> [People -> TaskStates]]

LEMMA AssignShape ==
  ASSUME NEW t \in Tables, NEW k \in Steps, NEW S \in SUBSET People
  PROVE  /\ Assign(t, k, S) \in Tables
         /\ \A j \in Steps, p \in People :
              Assign(t, k, S)[j][p] = IF j = k /\ p \in S THEN "PENDING" ELSE t[j][p]
  BY DEF Assign, Tables, TaskStates

LEMMA CancelShape ==
  ASSUME NEW t \in Tables
  PROVE  /\ CancelPending(t) \in Tables
         /\ \A j \in Steps, p \in People :
              CancelPending(t)[j][p] = IF t[j][p] = "PENDING" THEN "CANCELLED" ELSE t[j][p]
  BY DEF CancelPending, Tables, TaskStates

LEMMA DecidedShape ==
  ASSUME TypeOK, NEW q \in Loadable
  PROVE  /\ Decided(q) \in Tables
         /\ \A j \in Steps, p \in People :
              Decided(q)[j][p] =
                IF j = q.step /\ p = q.person THEN q.verdict ELSE task[q.inst][j][p]
<1>1. q.inst \in Instances /\ q.step \in Steps /\ q.person \in People /\ q.verdict \in Verdicts
  BY DEF Loadable
<1>2. task[q.inst] \in Tables
  BY <1>1 DEF TypeOK, Tables
<1> QED
  BY <1>1, <1>2 DEF Decided, Tables, TaskStates

LEMMA SettledShape ==
  ASSUME TypeOK, NEW q \in Loadable
  PROVE  /\ Settled(q) \in Tables
         /\ \A j \in Steps, p \in People :
              Settled(q)[j][p] =
                IF ~MustAgree(q) /\ j = q.step /\ Decided(q)[j][p] = "PENDING"
                THEN "SKIPPED" ELSE Decided(q)[j][p]
<1>1. q.step \in Steps /\ Decided(q) \in Tables
  BY DecidedShape DEF Loadable
<1>2. CASE MustAgree(q)
  BY <1>1, <1>2 DEF Settled
<1>3. CASE ~MustAgree(q)
  <2>1. Settled(q) = [Decided(q) EXCEPT ![q.step] =
          [p \in People |-> IF Decided(q)[q.step][p] = "PENDING" THEN "SKIPPED" ELSE Decided(q)[q.step][p]]]
    BY <1>3 DEF Settled
  <2> QED
    BY <1>1, <1>3, <2>1 DEF Tables, TaskStates
<1> QED
  BY <1>2, <1>3

-----------------------------------------------------------------------------
(* Types.                                                                  *)

LEMMA InitType == Init => TypeOK
<1> SUFFICES ASSUME Init PROVE TypeOK
  OBVIOUS
<1>1. events \in [Instances -> Seq(Verdicts \union {"ADVANCED"})]
  <2>1. <<>> \in Seq(Verdicts \union {"ADVANCED"})
    OBVIOUS
  <2> QED
    BY <2>1 DEF Init
<1>2. current \in [Instances -> Steps]
  BY FlowAssumption DEF Init
<1> QED
  BY <1>1, <1>2 DEF Init, TypeOK, TaskStates

(* The conjuncts of TypeOK that only Act and Submit change.                *)
LEMMA LoadedShape ==
  ASSUME TypeOK, NEW r \in Requests, loaded[r] # Nil
  PROVE  /\ loaded[r] \in Loadable
         /\ loaded[r].inst \in Instances /\ loaded[r].step \in Steps
         /\ loaded[r].person \in People /\ loaded[r].verdict \in Verdicts
         /\ loaded[r].next # Nil => loaded[r].next \in Asked
<1>1. loaded[r] \in Loadable
  BY DEF TypeOK
<1> QED
  BY <1>1 DEF Loadable, Asked

LEMMA FinishType ==
  ASSUME TypeOK, NEW i \in Instances, NEW v \in Verdicts, NEW t \in Tables, Finish(i, v, t)
  PROVE  /\ status' \in [Instances -> {"none", "RUNNING", "CANCELLED"} \union Verdicts]
         /\ current' \in [Instances -> Steps]
         /\ task' \in [Instances -> [Steps -> [People -> TaskStates]]]
         /\ events' \in [Instances -> Seq(Verdicts \union {"ADVANCED"})]
<1>1. status' = [status EXCEPT ![i] = v] /\ current' = current
  BY DEF Finish
<1>2. task' = [task EXCEPT ![i] = CancelPending(t)] /\ CancelPending(t) \in Tables
  BY CancelShape DEF Finish
<1>3. events' = [events EXCEPT ![i] = Append(events[i], v)]
  BY DEF Finish
<1>4. Append(events[i], v) \in Seq(Verdicts \union {"ADVANCED"})
  <2>1. events[i] \in Seq(Verdicts \union {"ADVANCED"}) /\ v \in Verdicts \union {"ADVANCED"}
    BY DEF TypeOK
  <2> QED
    BY <2>1
<1>5. events' \in [Instances -> Seq(Verdicts \union {"ADVANCED"})]
  BY <1>3, <1>4 DEF TypeOK
<1>6. task' \in [Instances -> [Steps -> [People -> TaskStates]]]
  BY <1>2 DEF TypeOK, Tables
<1>7. status' \in [Instances -> {"none", "RUNNING", "CANCELLED"} \union Verdicts]
      /\ current' \in [Instances -> Steps]
  BY <1>1 DEF TypeOK
<1> QED
  BY <1>5, <1>6, <1>7

LEMMA SubmitType ==
  ASSUME TypeOK, NEW i \in Instances, NEW d \in Docs, NEW k \in Keys \union {Nil},
         NEW f \in Flows[d], NEW o \in FirstAsked(d, f), Submit(i, d, k, f, o)
  PROVE  TypeOK'
<1>1. f \in FlowVersions /\ (o # Nil => o \in Asked)
  BY FlowShape, FirstAskedShape
<1>2. doc' = [doc EXCEPT ![i] = d] /\ key' = [key EXCEPT ![i] = k] /\ flow' = [flow EXCEPT ![i] = f]
      /\ current' = current /\ loaded' = loaded
  BY DEF Submit
<1>3. CASE o = Nil
  <2>1. /\ status' = [status EXCEPT ![i] = "APPROVED"]
        /\ events' = [events EXCEPT ![i] = <<"APPROVED">>]
        /\ task' = task
    BY <1>3 DEF Submit
  <2>2. <<"APPROVED">> \in Seq(Verdicts \union {"ADVANCED"})
    BY DEF Verdicts
  <2>3. events' \in [Instances -> Seq(Verdicts \union {"ADVANCED"})]
    BY <2>1, <2>2 DEF TypeOK
  <2>4. status' \in [Instances -> {"none", "RUNNING", "CANCELLED"} \union Verdicts]
    BY <2>1 DEF TypeOK, Verdicts
  <2> QED
    BY <1>1, <1>2, <2>1, <2>3, <2>4 DEF TypeOK
<1>4. CASE o # Nil
  <2>1. /\ status' = [status EXCEPT ![i] = "RUNNING"]
        /\ task' = [task EXCEPT ![i] = Assign(task[i], o.step, o.staff)]
        /\ events' = events
    BY <1>4 DEF Submit
  <2>2. task[i] \in Tables /\ o.step \in Steps /\ o.staff \in SUBSET People
    BY <1>1, <1>4 DEF TypeOK, Tables, Asked
  <2>3. Assign(task[i], o.step, o.staff) \in Tables
    BY <2>2, AssignShape
  <2>4. task' \in [Instances -> [Steps -> [People -> TaskStates]]]
    BY <2>1, <2>3 DEF TypeOK, Tables
  <2>5. status' \in [Instances -> {"none", "RUNNING", "CANCELLED"} \union Verdicts]
    BY <2>1 DEF TypeOK
  <2> QED
    BY <1>1, <1>2, <2>1, <2>4, <2>5 DEF TypeOK
<1> QED
  BY <1>3, <1>4

(* FirstStaffed when asked by Act.                                         *)
LEMMA NextAskedShape ==
  ASSUME TypeOK, NEW i \in Instances, Opened(i), status[i] # "none", NEW k \in Steps,
         NEW action, NEW o \in NextAsked(i, k, action), o # Nil
  PROVE  o \in Asked /\ o.step > k /\ o.staff # {}
<1>1. flow[i] \in FlowVersions
  BY FlowShape DEF Opened
<1>2. k \in Nat /\ k + 1 \in Nat
  BY FlowAssumption
<1>3. o \in FirstStaffed(flow[i], k + 1)
  BY DEF NextAsked
<1>4. o \in Asked /\ o.step >= k + 1 /\ o.staff # {}
  BY <1>1, <1>2, <1>3, FirstStaffedShape
<1>5. o.step \in Nat
  BY <1>4, FlowAssumption DEF Asked
<1> QED
  BY <1>2, <1>4, <1>5

LEMMA LoadShape ==
  ASSUME TypeOK, NEW r \in Requests, NEW i \in Instances, Opened(i), NEW k \in Steps,
         NEW p \in People, NEW action \in {"APPROVE", "REJECT", "RETURN"}, Load(r, i, k, p, action)
  PROVE  /\ loaded' \in [Requests -> Loadable \union {Nil}]
         /\ status[i] # "none"
         /\ \E q \in Loadable :
              /\ loaded' = [loaded EXCEPT ![r] = q]
              /\ q.inst = i /\ q.step = k
              /\ q.next # Nil => q.next.step > k /\ q.next.staff # {}
<1>1. PICK o \in NextAsked(i, k, action) :
        loaded' = [loaded EXCEPT ![r] =
          [inst |-> i, step |-> k, person |-> p, verdict |-> VerdictFor(doc[i], action), next |-> o]]
  BY DEF Load
<1>2. status[i] # "none"
  BY DEF Load, Opened
<1>3. o # Nil => o \in Asked /\ o.step > k /\ o.staff # {}
  BY <1>2, NextAskedShape
<1>4. VerdictFor(doc[i], action) \in Verdicts
  BY DEF VerdictFor, Verdicts
<1> DEFINE q == [inst |-> i, step |-> k, person |-> p, verdict |-> VerdictFor(doc[i], action), next |-> o]
<1>5. q \in Loadable /\ q.inst = i /\ q.step = k /\ q.next = o
  BY <1>3, <1>4 DEF Loadable, Asked
<1>6. loaded' = [loaded EXCEPT ![r] = q]
  BY <1>1
<1> HIDE DEF q
<1>7. loaded' \in [Requests -> Loadable \union {Nil}]
  BY <1>5, <1>6 DEF TypeOK
<1> QED
  BY <1>2, <1>3, <1>5, <1>6, <1>7

-----------------------------------------------------------------------------
(* Instances an action leaves alone.                                       *)

Same(i) ==
  /\ status'[i] = status[i] /\ doc'[i] = doc[i] /\ key'[i] = key[i] /\ flow'[i] = flow[i]
  /\ current'[i] = current[i] /\ task'[i] = task[i] /\ events'[i] = events[i]

LEMMA Elsewhere ==
  ASSUME NEW i \in Instances, Sound(i), Same(i)
  PROVE  Sound(i)'
<1> USE DEF Same
<1>1. OpenAt(i)' = OpenAt(i)
  BY DEF OpenAt, PendingAt
<1>2. Opened(i)'
  BY DEF Sound, Opened
<1>3. NoDissent(i)'
  BY <1>1 DEF Sound, NoDissent
<1>4. OneOpenStepOf(i)'
  BY <1>1 DEF Sound, OneOpenStepOf
<1>5. ConsentOf(i)'
  BY <1>1 DEF Sound, ConsentOf
<1>6. EventsMatchOf(i)'
  BY DEF Sound, EventsMatchOf
<1>7. ApprovedBySomebody(i)'
  BY DEF Sound, ApprovedBySomebody
<1> QED
  BY <1>2, <1>3, <1>4, <1>5, <1>6, <1>7 DEF Sound

(* What requests have read stays true of what they read, unless it is about *)
(* an instance that vanishes: when one of them concludes,                   *)
LEMMA LoadedStays ==
  ASSUME TypeOK, LoadedAhead, NEW r \in Requests, loaded' = [loaded EXCEPT ![r] = Nil],
         \A i \in Instances : status[i] # "none" => status'[i] # "none"
  PROVE  LoadedAhead'
<1> SUFFICES ASSUME NEW s \in Requests, loaded'[s] # Nil
             PROVE  /\ status'[loaded'[s].inst] # "none"
                    /\ loaded'[s].next # Nil =>
                         loaded'[s].next.step > loaded'[s].step /\ loaded'[s].next.staff # {}
  BY DEF LoadedAhead
<1>1. loaded'[s] = loaded[s]
  BY DEF TypeOK
<1>2. loaded[s].inst \in Instances
  BY <1>1, LoadedShape
<1> QED
  BY <1>1, <1>2 DEF LoadedAhead

(* and when none of them does anything.                                    *)
LEMMA LoadedSame ==
  ASSUME TypeOK, LoadedAhead, loaded' = loaded,
         \A i \in Instances : status[i] # "none" => status'[i] # "none"
  PROVE  LoadedAhead'
<1> SUFFICES ASSUME NEW s \in Requests, loaded'[s] # Nil
             PROVE  /\ status'[loaded'[s].inst] # "none"
                    /\ loaded'[s].next # Nil =>
                         loaded'[s].next.step > loaded'[s].step /\ loaded'[s].next.staff # {}
  BY DEF LoadedAhead
<1>1. loaded[s].inst \in Instances
  BY LoadedShape
<1> QED
  BY <1>1 DEF LoadedAhead

-----------------------------------------------------------------------------
(* Submit.                                                                 *)

LEMMA SubmitSound ==
  ASSUME IInv, NEW i \in Instances, NEW d \in Docs, NEW k \in Keys \union {Nil},
         NEW f \in Flows[d], NEW o \in FirstAsked(d, f), Submit(i, d, k, f, o)
  PROVE  IInv'
<1>1. TypeOK /\ LoadedAhead /\ \A j \in Instances : Sound(j)
  BY DEF IInv
<1>2. TypeOK'
  BY <1>1, SubmitType
<1>3. /\ status[i] = "none" /\ doc'[i] = d /\ flow'[i] = f /\ current'[i] = current[i]
      /\ loaded' = loaded
  BY <1>1 DEF Submit, TypeOK
<1>4. /\ current[i] = 1 /\ events[i] = <<>>
      /\ \A n \in Steps, p \in People : task[i][n][p] = "none"
  BY <1>1, <1>3 DEF Sound, Opened
<1>5. \A j \in Instances : j # i => Same(j)
  BY <1>1 DEF Submit, TypeOK, Same
<1>6. \A j \in Instances : status[j] # "none" => status'[j] # "none"
  BY <1>3, <1>5 DEF Same
<1>7. LoadedAhead'
  BY <1>1, <1>3, <1>6, LoadedSame
<1>8. CASE o = Nil
  <2>1. status'[i] = "APPROVED" /\ events'[i] = <<"APPROVED">> /\ task'[i] = task[i]
    BY <1>1, <1>8 DEF Submit, TypeOK
  <2>2. OpenAt(i)' = {}
    BY <1>4, <2>1 DEF OpenAt, PendingAt
  <2>3. Kind[d] \notin {"CONTRACT", "PURCHASE_ORDER"}
    BY <1>8, FirstAskedShape
  <2>4. Opened(i)' /\ NoDissent(i)' /\ OneOpenStepOf(i)'
    BY <1>3, <2>1, <2>2 DEF Opened, NoDissent, OneOpenStepOf
  <2>5. ConsentOf(i)'
    BY <1>4, <2>1 DEF ConsentOf
  <2>6. EventsMatchOf(i)'
    BY <2>1 DEF EventsMatchOf, Verdicts
  <2>7. ApprovedBySomebody(i)'
    BY <1>3, <2>3 DEF ApprovedBySomebody
  <2> QED
    BY <2>4, <2>5, <2>6, <2>7, <1>1, <1>2, <1>5, <1>7, Elsewhere DEF IInv, Sound
<1>9. CASE o # Nil
  <2>1. o.step \in Steps /\ o.staff \in SUBSET People /\ o.staff # {} /\ o.step >= 1
    BY <1>9, FirstAskedShape DEF Asked
  <2>2. status'[i] = "RUNNING" /\ events'[i] = events[i] /\ task'[i] = Assign(task[i], o.step, o.staff)
    BY <1>1, <1>9 DEF Submit, TypeOK
  <2>3. task[i] \in Tables
    BY <1>1 DEF TypeOK, Tables
  <2>4. \A j \in Steps, p \in People :
          task'[i][j][p] = IF j = o.step /\ p \in o.staff THEN "PENDING" ELSE "none"
    BY <1>4, <2>1, <2>2, <2>3, AssignShape
  <2>5. OpenAt(i)' = {o.step}
    BY <2>1, <2>4 DEF OpenAt, PendingAt
  <2>6. Opened(i)'
    BY <1>3, <2>2 DEF Opened
  <2>7. NoDissent(i)'
    BY <2>4 DEF NoDissent
  <2>8. OneOpenStepOf(i)'
    <3>1. Steps \subseteq Nat
      BY FlowAssumption
    <3>2. \A j \in Steps : j > o.step => j # o.step
      BY <2>1, <3>1
    <3>3. \A j \in Steps, p \in People : j > o.step => task'[i][j][p] = "none"
      BY <2>4, <3>2
    <3> QED
      BY <1>3, <1>4, <2>1, <2>2, <2>5, <3>3 DEF OneOpenStepOf
  <2>9. ConsentOf(i)'
    BY <2>2, <2>4, <2>5 DEF ConsentOf
  <2>10. EventsMatchOf(i)'
    <3>1. events'[i] = <<>> /\ Len(events'[i]) = 0 /\ status'[i] \notin Verdicts
      BY <1>4, <2>2 DEF Verdicts
    <3> QED
      BY <3>1 DEF EventsMatchOf
  <2>11. ApprovedBySomebody(i)'
    BY <2>2 DEF ApprovedBySomebody
  <2> QED
    BY <2>6, <2>7, <2>8, <2>9, <2>10, <2>11, <1>1, <1>2, <1>5, <1>7, Elsewhere DEF IInv, Sound
<1> QED
  BY <1>8, <1>9

-----------------------------------------------------------------------------
(* Decisions.                                                              *)

(* What a request knows once it has the row lock: its task is at the one   *)
(* open step, and nobody has been asked beyond it.                         *)
LEMMA ActingFacts ==
  ASSUME IInv, NEW r \in Requests, Acting(r)
  PROVE  LET q == loaded[r] IN
         /\ TypeOK /\ LoadedAhead /\ Sound(q.inst)
         /\ q \in Loadable /\ q.inst \in Instances /\ q.step \in Steps
         /\ q.person \in People /\ q.verdict \in Verdicts
         /\ q.next # Nil => q.next \in Asked /\ q.next.step > q.step /\ q.next.staff # {}
         /\ status[q.inst] = "RUNNING" /\ task[q.inst][q.step][q.person] = "PENDING"
         /\ OpenAt(q.inst) = {q.step} /\ current[q.inst] <= q.step
         /\ \A j \in Steps, p \in People : j > q.step => task[q.inst][j][p] = "none"
<1> DEFINE q == loaded[r]
<1>1. TypeOK /\ LoadedAhead /\ \A j \in Instances : Sound(j)
  BY DEF IInv
<1>2. /\ q \in Loadable /\ q.inst \in Instances /\ q.step \in Steps
      /\ q.person \in People /\ q.verdict \in Verdicts /\ (q.next # Nil => q.next \in Asked)
  BY <1>1, LoadedShape DEF Acting
<1>3. status[q.inst] = "RUNNING" /\ task[q.inst][q.step][q.person] = "PENDING"
  BY DEF Acting
<1>4. q.step \in OpenAt(q.inst)
  BY <1>2, <1>3 DEF OpenAt, PendingAt
<1>5. PICK k \in Steps :
        /\ OpenAt(q.inst) = {k} /\ current[q.inst] <= k
        /\ \A j \in Steps, p \in People : j > k => task[q.inst][j][p] = "none"
  BY <1>1, <1>2, <1>3 DEF Sound, OneOpenStepOf
<1>6. k = q.step
  BY <1>4, <1>5
<1>7. q.next # Nil => q.next.step > q.step /\ q.next.staff # {}
  BY <1>1 DEF LoadedAhead, Acting
<1> QED
  BY <1>1, <1>2, <1>3, <1>5, <1>6, <1>7

LEMMA FinishSound ==
  ASSUME IInv, NEW i \in Instances, status[i] = "RUNNING",
         NEW v \in Verdicts, NEW t \in Tables, Finish(i, v, t), UNCHANGED <<doc, key, flow>>,
         v = "APPROVED" =>
           /\ \E k \in Steps, p \in People : t[k][p] = "APPROVED"
           /\ ConsentOf(i)'
  PROVE  Sound(i)' /\ (\A j \in Instances : j # i => Same(j)) /\ status'[i] = v
<1>1. TypeOK /\ Sound(i)
  BY DEF IInv
<1>2. /\ status'[i] = v /\ current' = current /\ task'[i] = CancelPending(t)
      /\ events'[i] = Append(events[i], v)
  BY <1>1 DEF Finish, TypeOK
<1>3. \A j \in Instances : j # i => Same(j)
  BY <1>1 DEF Finish, TypeOK, Same
<1>4. \A j \in Steps, p \in People : task'[i][j][p] = IF t[j][p] = "PENDING" THEN "CANCELLED" ELSE t[j][p]
  BY <1>2, CancelShape
<1>5. v # "none" /\ v # "RUNNING"
  BY DEF Verdicts
<1>6. OpenAt(i)' = {}
  BY <1>4 DEF OpenAt, PendingAt
<1>7. Opened(i)'
  BY <1>1, <1>2, <1>5 DEF Sound, Opened
<1>8. NoDissent(i)' /\ OneOpenStepOf(i)'
  BY <1>2, <1>5, <1>6 DEF NoDissent, OneOpenStepOf
<1>9. ConsentOf(i)'
  BY <1>2, <1>5 DEF ConsentOf
<1>10. EventsMatchOf(i)'
  <2>1. events[i] \in Seq(Verdicts \union {"ADVANCED"}) /\ v \in Verdicts \union {"ADVANCED"}
    BY <1>1 DEF TypeOK
  <2>2. \A n \in 1..Len(events[i]) : events[i][n] = "ADVANCED"
    BY <1>1 DEF Sound, EventsMatchOf, Verdicts
  <2>3. Len(events'[i]) = Len(events[i]) + 1 /\ Len(events[i]) \in Nat
    BY <1>2, <2>1
  <2>4. \A n \in 1..Len(events[i]) : events'[i][n] = events[i][n]
    BY <1>2, <2>1
  <2>5. events'[i][Len(events[i]) + 1] = v
    BY <1>2, <2>1
  <2>6. events'[i] # <<>>
    BY <2>3
  <2> QED
    BY <1>2, <2>2, <2>3, <2>4, <2>5, <2>6 DEF EventsMatchOf
<1>11. ApprovedBySomebody(i)'
  <2>1. CASE v = "APPROVED"
    <3>1. PICK k \in Steps, p \in People : t[k][p] = "APPROVED"
      BY <2>1
    <3>2. task'[i][k][p] = "APPROVED"
      BY <1>4, <3>1
    <3> QED
      BY <3>2 DEF ApprovedBySomebody
  <2>2. CASE v # "APPROVED"
    BY <1>2, <2>2 DEF ApprovedBySomebody
  <2> QED
    BY <2>1, <2>2
<1> QED
  BY <1>2, <1>3, <1>7, <1>8, <1>9, <1>10, <1>11 DEF Sound

(* What is left to show once the instance decided on is sound again.       *)
LEMMA ConcludeSound ==
  ASSUME IInv, NEW r \in Requests, NEW i \in Instances, NEW v \in Verdicts, NEW t \in Tables,
         Finish(i, v, t), UNCHANGED <<doc, key, flow>>, loaded' = [loaded EXCEPT ![r] = Nil],
         Sound(i)', \A j \in Instances : j # i => Same(j), status'[i] = v
  PROVE  IInv'
<1>1. TypeOK /\ LoadedAhead /\ \A j \in Instances : Sound(j)
  BY DEF IInv
<1>2. TypeOK'
  <2>1. loaded' \in [Requests -> Loadable \union {Nil}]
    BY <1>1 DEF TypeOK
  <2> QED
    BY <1>1, <2>1, FinishType DEF TypeOK
<1>3. LoadedAhead'
  <2>1. \A j \in Instances : status[j] # "none" => status'[j] # "none"
    BY DEF Same, Verdicts
  <2> QED
    BY <1>1, <2>1, LoadedStays
<1>4. \A j \in Instances : Sound(j)'
  BY <1>1, Elsewhere
<1> QED
  BY <1>2, <1>3, <1>4 DEF IInv

LEMMA TurnDownSound ==
  ASSUME IInv, NEW r \in Requests, TurnDown(r)
  PROVE  IInv'
<1>1. PICK q \in Loadable : q = loaded[r]
  BY ActingFacts DEF TurnDown
<1>2. Acting(r) /\ q.verdict # "APPROVED" /\ Finish(q.inst, q.verdict, Decided(q))
  BY <1>1 DEF TurnDown
<1>3. /\ TypeOK /\ LoadedAhead /\ q.inst \in Instances /\ q.verdict \in Verdicts
      /\ status[q.inst] = "RUNNING"
  BY <1>1, <1>2, ActingFacts
<1>4. Decided(q) \in Tables
  BY <1>3, DecidedShape
<1>5. loaded' = [loaded EXCEPT ![r] = Nil] /\ UNCHANGED <<doc, key, flow>>
  BY <1>2 DEF Acting
<1>6. /\ Sound(q.inst)' /\ (\A j \in Instances : j # q.inst => Same(j))
      /\ status'[q.inst] = q.verdict
  BY <1>2, <1>3, <1>4, <1>5, FinishSound
<1> QED
  BY <1>2, <1>3, <1>4, <1>5, <1>6, ConcludeSound

(* The tasks of the open step once it is complete: none is pending, and    *)
(* the step has the consent its mode demands.                              *)
LEMMA SettledTable ==
  ASSUME IInv, NEW r \in Requests, Acting(r), NEW q \in Loadable, q = loaded[r],
         q.verdict = "APPROVED", Complete(q)
  PROVE  /\ Settled(q) \in Tables
         /\ \A j \in Steps, p \in People : j # q.step => Settled(q)[j][p] = task[q.inst][j][p]
         /\ \A j \in Steps, p \in People : Settled(q)[j][p] # "PENDING"
         /\ Settled(q)[q.step][q.person] = "APPROVED"
         /\ MustAgree(q) => \A p \in People : Settled(q)[q.step][p] \in {"none", "APPROVED"}
<1>1. /\ TypeOK /\ q.inst \in Instances /\ q.step \in Steps /\ q.person \in People
      /\ status[q.inst] = "RUNNING" /\ OpenAt(q.inst) = {q.step} /\ Sound(q.inst)
  BY ActingFacts
<1>2. \A j \in Steps, p \in People :
        Decided(q)[j][p] = IF j = q.step /\ p = q.person THEN q.verdict ELSE task[q.inst][j][p]
  BY <1>1, DecidedShape
<1>3. /\ Settled(q) \in Tables
      /\ \A j \in Steps, p \in People :
           Settled(q)[j][p] =
             IF ~MustAgree(q) /\ j = q.step /\ Decided(q)[j][p] = "PENDING"
             THEN "SKIPPED" ELSE Decided(q)[j][p]
  BY <1>1, SettledShape
<1>4. \A j \in Steps, p \in People : j # q.step => task[q.inst][j][p] # "PENDING"
  BY <1>1 DEF OpenAt, PendingAt
<1>5. MustAgree(q) => \A p \in People : Decided(q)[q.step][p] # "PENDING"
  BY DEF Complete, PendingAt
<1>6. \A p \in People : task[q.inst][q.step][p] \in {"none", "PENDING", "APPROVED"}
  BY <1>1 DEF Sound, NoDissent
<1>7. \A j \in Steps, p \in People : j # q.step => Settled(q)[j][p] = task[q.inst][j][p]
  BY <1>2, <1>3
<1>8. \A p \in People : Settled(q)[q.step][p] # "PENDING"
  BY <1>1, <1>3, <1>5
<1>9. Settled(q)[q.step][q.person] = "APPROVED"
  BY <1>1, <1>2, <1>3
<1>10. ASSUME MustAgree(q), NEW p \in People PROVE Settled(q)[q.step][p] \in {"none", "APPROVED"}
  <2>1. Settled(q)[q.step][p] = Decided(q)[q.step][p] /\ Decided(q)[q.step][p] # "PENDING"
    BY <1>1, <1>3, <1>5, <1>10
  <2>2. Decided(q)[q.step][p] \in {"none", "PENDING", "APPROVED"}
    BY <1>1, <1>2, <1>6
  <2> QED
    BY <2>1, <2>2
<1> QED
  BY <1>3, <1>4, <1>7, <1>8, <1>9, <1>10

(* Consent of step k in the tasks t of an instance with flow f.            *)
ConsentAt(t, f, k) ==
  LET asked == {p \in People : t[k][p] # "none"}
      agreed == {p \in asked : t[k][p] = "APPROVED"}
  IN asked # {} => IF f[k].mode = "ALL" THEN agreed = asked ELSE agreed # {}

LEMMA SettledConsent ==
  ASSUME IInv, NEW r \in Requests, Acting(r), NEW q \in Loadable, q = loaded[r],
         q.verdict = "APPROVED", Complete(q), NEW k \in Steps
  PROVE  ConsentAt(Settled(q), flow[q.inst], k)
<1>1. /\ q.inst \in Instances /\ q.step \in Steps /\ q.person \in People
      /\ status[q.inst] = "RUNNING" /\ OpenAt(q.inst) = {q.step} /\ Sound(q.inst)
  BY ActingFacts
<1>2. CASE k # q.step
  <2>1. ConsentAt(task[q.inst], flow[q.inst], k)
    BY <1>1, <1>2 DEF Sound, ConsentOf, ConsentAt
  <2>2. \A p \in People : Settled(q)[k][p] = task[q.inst][k][p]
    BY <1>2, SettledTable
  <2> QED
    BY <2>1, <2>2 DEF ConsentAt
<1>3. CASE k = q.step
  <2>1. Settled(q)[k][q.person] = "APPROVED"
    BY <1>3, SettledTable
  <2>2. MustAgree(q) => \A p \in People : Settled(q)[k][p] \in {"none", "APPROVED"}
    BY <1>3, SettledTable
  <2>3. MustAgree(q) <=> flow[q.inst][k].mode = "ALL"
    BY <1>3 DEF MustAgree
  <2> QED
    BY <1>1, <2>1, <2>2, <2>3 DEF ConsentAt
<1> QED
  BY <1>2, <1>3

LEMMA ApproveSound ==
  ASSUME IInv, NEW r \in Requests, Approve(r)
  PROVE  IInv'
<1>1. PICK q \in Loadable : q = loaded[r]
  BY ActingFacts DEF Approve
<1>2. Acting(r) /\ q.verdict = "APPROVED" /\ Complete(q) /\ Finish(q.inst, "APPROVED", Settled(q))
  BY <1>1 DEF Approve
<1>3. /\ TypeOK /\ LoadedAhead /\ q.inst \in Instances /\ q.step \in Steps /\ q.person \in People
      /\ status[q.inst] = "RUNNING"
  BY <1>1, <1>2, ActingFacts
<1>4. /\ Settled(q) \in Tables
      /\ \A j \in Steps, p \in People : Settled(q)[j][p] # "PENDING"
      /\ Settled(q)[q.step][q.person] = "APPROVED"
  BY <1>1, <1>2, SettledTable
<1>5. loaded' = [loaded EXCEPT ![r] = Nil] /\ UNCHANGED <<doc, key, flow>>
  BY <1>2 DEF Acting
<1>6. \A j \in Steps, p \in People : task'[q.inst][j][p] = Settled(q)[j][p]
  <2>1. task'[q.inst] = CancelPending(Settled(q))
    BY <1>2, <1>3 DEF Finish, TypeOK
  <2> QED
    BY <2>1, <1>4, CancelShape
<1>7. ConsentOf(q.inst)'
  <2>1. SUFFICES ASSUME NEW k \in Steps PROVE ConsentAt(task'[q.inst], flow'[q.inst], k)
    BY DEF ConsentOf, ConsentAt
  <2>2. ConsentAt(Settled(q), flow[q.inst], k)
    BY <1>1, <1>2, SettledConsent
  <2> QED
    BY <2>2, <1>5, <1>6 DEF ConsentAt
<1>8. "APPROVED" \in Verdicts
  BY DEF Verdicts
<1>9. \E k \in Steps, p \in People : Settled(q)[k][p] = "APPROVED"
  BY <1>3, <1>4
<1>10. /\ Sound(q.inst)' /\ (\A j \in Instances : j # q.inst => Same(j))
       /\ status'[q.inst] = "APPROVED"
  BY <1>2, <1>3, <1>4, <1>5, <1>7, <1>8, <1>9, FinishSound
<1> QED
  BY <1>2, <1>3, <1>4, <1>5, <1>8, <1>10, ConcludeSound

LEMMA AwaitSound ==
  ASSUME IInv, NEW r \in Requests, AwaitColleagues(r)
  PROVE  IInv'
<1>1. PICK q \in Loadable : q = loaded[r]
  BY ActingFacts DEF AwaitColleagues
<1>2. /\ Acting(r) /\ q.verdict = "APPROVED" /\ ~Complete(q)
      /\ task' = [task EXCEPT ![q.inst] = Decided(q)]
      /\ UNCHANGED <<status, current, events, doc, key, flow>>
      /\ loaded' = [loaded EXCEPT ![r] = Nil]
  BY <1>1 DEF AwaitColleagues, Acting
<1>3. /\ TypeOK /\ LoadedAhead /\ q.inst \in Instances /\ q.step \in Steps /\ q.person \in People
      /\ status[q.inst] = "RUNNING" /\ OpenAt(q.inst) = {q.step} /\ current[q.inst] <= q.step
      /\ Sound(q.inst)
      /\ \A j \in Steps, p \in People : j > q.step => task[q.inst][j][p] = "none"
  BY <1>1, <1>2, ActingFacts
<1>4. \A j \in Instances : j # q.inst => Same(j)
  BY <1>2, <1>3 DEF TypeOK, Same
<1>5. /\ Decided(q) \in Tables
      /\ \A j \in Steps, p \in People :
           task'[q.inst][j][p] = IF j = q.step /\ p = q.person THEN "APPROVED" ELSE task[q.inst][j][p]
  BY <1>2, <1>3, DecidedShape DEF TypeOK
<1>6. TypeOK'
  <2>1. loaded' \in [Requests -> Loadable \union {Nil}]
    BY <1>2, <1>3 DEF TypeOK
  <2>2. task' \in [Instances -> [Steps -> [People -> TaskStates]]]
    BY <1>2, <1>3, <1>5 DEF TypeOK, Tables
  <2> QED
    BY <1>2, <1>3, <2>1, <2>2 DEF TypeOK
<1>7. LoadedAhead'
  BY <1>2, <1>3, LoadedStays
<1>8. q.step \in OpenAt(q.inst)'
  <2>1. PICK p \in People : Decided(q)[q.step][p] = "PENDING"
    BY <1>2 DEF Complete, PendingAt
  <2>2. task'[q.inst][q.step][p] = "PENDING"
    BY <2>1, <1>2, <1>3 DEF TypeOK
  <2> QED
    BY <2>2, <1>3 DEF OpenAt, PendingAt
<1>9. OpenAt(q.inst)' = {q.step}
  <2>1. \A j \in Steps, p \in People : j # q.step => task'[q.inst][j][p] # "PENDING"
    BY <1>3, <1>5 DEF OpenAt, PendingAt
  <2> QED
    BY <1>8, <2>1 DEF OpenAt, PendingAt
<1>10. Opened(q.inst)'
  BY <1>2, <1>3 DEF Sound, Opened
<1>11. NoDissent(q.inst)'
  BY <1>3, <1>5, <1>9 DEF Sound, NoDissent
<1>12. OneOpenStepOf(q.inst)'
  <2>1. Steps \subseteq Nat
    BY FlowAssumption
  <2>6. q.step \in Nat
    BY <1>3, <2>1
  <2>2. \A j \in Steps : j > q.step => j # q.step
    BY <2>1, <2>6
  <2>3. \A j \in Steps, p \in People : j > q.step => task'[q.inst][j][p] = "none"
    BY <1>3, <1>5, <2>2
  <2> QED
    BY <1>2, <1>3, <1>9, <2>3 DEF OneOpenStepOf
<1>13. ConsentOf(q.inst)'
  <2>1. SUFFICES ASSUME NEW k \in Steps, k # q.step
                 PROVE  ConsentAt(task'[q.inst], flow'[q.inst], k)
    BY <1>2, <1>3, <1>9 DEF ConsentOf, ConsentAt
  <2>2. ConsentAt(task[q.inst], flow[q.inst], k)
    BY <1>3, <2>1 DEF Sound, ConsentOf, ConsentAt
  <2>3. \A p \in People : task'[q.inst][k][p] = task[q.inst][k][p]
    BY <1>5, <2>1
  <2> QED
    BY <1>2, <2>2, <2>3 DEF ConsentAt
<1>14. EventsMatchOf(q.inst)'
  BY <1>2, <1>3 DEF Sound, EventsMatchOf
<1>15. ApprovedBySomebody(q.inst)'
  BY <1>2, <1>3 DEF ApprovedBySomebody
<1>16. Sound(q.inst)'
  BY <1>10, <1>11, <1>12, <1>13, <1>14, <1>15 DEF Sound
<1>17. \A j \in Instances : Sound(j)'
  BY <1>4, <1>16, Elsewhere DEF IInv
<1> QED
  BY <1>6, <1>7, <1>17 DEF IInv

LEMMA PassOnSound ==
  ASSUME IInv, NEW r \in Requests, PassOn(r)
  PROVE  IInv'
<1>1. PICK q \in Loadable : q = loaded[r]
  BY ActingFacts DEF PassOn
<1>2. /\ Acting(r) /\ q.verdict = "APPROVED" /\ Complete(q) /\ q.next # Nil
      /\ current' = [current EXCEPT ![q.inst] = q.next.step]
      /\ task' = [task EXCEPT ![q.inst] = Assign(Settled(q), q.next.step, q.next.staff)]
      /\ events' = [events EXCEPT ![q.inst] = Append(events[q.inst], "ADVANCED")]
      /\ UNCHANGED <<status, doc, key, flow>>
      /\ loaded' = [loaded EXCEPT ![r] = Nil]
  BY <1>1 DEF PassOn, Acting
<1>3. /\ TypeOK /\ LoadedAhead /\ q.inst \in Instances /\ q.step \in Steps /\ q.person \in People
      /\ status[q.inst] = "RUNNING" /\ OpenAt(q.inst) = {q.step} /\ Sound(q.inst)
      /\ \A j \in Steps, p \in People : j > q.step => task[q.inst][j][p] = "none"
      /\ q.next \in Asked /\ q.next.step > q.step /\ q.next.staff # {}
  BY <1>1, <1>2, ActingFacts
<1>4. \A j \in Instances : j # q.inst => Same(j)
  BY <1>2, <1>3 DEF TypeOK, Same
<1>5. q.next.step \in Steps /\ q.next.staff \in SUBSET People /\ q.next.step # q.step
  <2>1. q.next.step \in Steps /\ q.next.staff \in SUBSET People
    BY <1>3 DEF Asked
  <2>2. q.next.step \in Nat /\ q.step \in Nat
    BY <1>3, <2>1, FlowAssumption
  <2> QED
    BY <1>3, <2>1, <2>2
<1>6. /\ Settled(q) \in Tables
      /\ \A j \in Steps, p \in People : j # q.step => Settled(q)[j][p] = task[q.inst][j][p]
      /\ \A j \in Steps, p \in People : Settled(q)[j][p] # "PENDING"
  BY <1>1, <1>2, SettledTable
<1>7. /\ Assign(Settled(q), q.next.step, q.next.staff) \in Tables
      /\ \A j \in Steps, p \in People :
           task'[q.inst][j][p] =
             IF j = q.next.step /\ p \in q.next.staff THEN "PENDING" ELSE Settled(q)[j][p]
  BY <1>2, <1>3, <1>5, <1>6, AssignShape DEF TypeOK
<1>8. Append(events[q.inst], "ADVANCED") \in Seq(Verdicts \union {"ADVANCED"})
  <2>1. events[q.inst] \in Seq(Verdicts \union {"ADVANCED"}) /\ "ADVANCED" \in Verdicts \union {"ADVANCED"}
    BY <1>3 DEF TypeOK
  <2> QED
    BY <2>1
<1>9. TypeOK'
  <2>1. loaded' \in [Requests -> Loadable \union {Nil}]
    BY <1>2, <1>3 DEF TypeOK
  <2>2. task' \in [Instances -> [Steps -> [People -> TaskStates]]]
    BY <1>2, <1>3, <1>7 DEF TypeOK, Tables
  <2>3. events' \in [Instances -> Seq(Verdicts \union {"ADVANCED"})]
    BY <1>2, <1>3, <1>8 DEF TypeOK
  <2>4. current' \in [Instances -> Steps]
    BY <1>2, <1>3, <1>5 DEF TypeOK
  <2> QED
    BY <1>2, <1>3, <2>1, <2>2, <2>3, <2>4 DEF TypeOK
<1>10. LoadedAhead'
  BY <1>2, <1>3, LoadedStays
<1>11. OpenAt(q.inst)' = {q.next.step}
  BY <1>3, <1>5, <1>6, <1>7 DEF OpenAt, PendingAt
<1>12. \A j \in Steps, p \in People : j >= q.next.step => Settled(q)[j][p] = "none"
  <2>1. Steps \subseteq Nat
    BY FlowAssumption
  <2>2. \A j \in Steps : j >= q.next.step => j > q.step /\ j # q.step
    BY <1>3, <1>5, <2>1
  <2> QED
    BY <1>3, <1>6, <2>2
<1>13. Opened(q.inst)'
  BY <1>2, <1>3 DEF Sound, Opened
<1>14. NoDissent(q.inst)'
  <2>1. q.next.step >= q.next.step
    <3>1. q.next.step \in Nat
      BY <1>5, FlowAssumption
    <3> QED
      BY <3>1
  <2>2. \A p \in People : task'[q.inst][q.next.step][p] \in {"none", "PENDING"}
    BY <1>5, <1>7, <1>12, <2>1
  <2> QED
    BY <1>11, <2>2 DEF NoDissent
<1>15. OneOpenStepOf(q.inst)'
  <2>1. Steps \subseteq Nat
    BY FlowAssumption
  <2>2. \A j \in Steps : j > q.next.step => j # q.next.step /\ j >= q.next.step
    <3>1. q.next.step \in Nat
      BY <1>5, <2>1
    <3> QED
      BY <2>1, <3>1
  <2>3. \A j \in Steps, p \in People : j > q.next.step => task'[q.inst][j][p] = "none"
    BY <1>7, <1>12, <2>2
  <2>4. current'[q.inst] = q.next.step /\ q.next.step <= q.next.step
    BY <1>2, <1>3, <1>5, <2>1 DEF TypeOK
  <2> QED
    BY <1>2, <1>3, <1>5, <1>11, <2>3, <2>4 DEF OneOpenStepOf
<1>16. ConsentOf(q.inst)'
  <2>1. SUFFICES ASSUME NEW k \in Steps, k # q.next.step
                 PROVE  ConsentAt(task'[q.inst], flow'[q.inst], k)
    BY <1>2, <1>3, <1>11 DEF ConsentOf, ConsentAt
  <2>2. ConsentAt(Settled(q), flow[q.inst], k)
    BY <1>1, <1>2, SettledConsent
  <2>3. \A p \in People : task'[q.inst][k][p] = Settled(q)[k][p]
    BY <1>7, <2>1
  <2> QED
    BY <1>2, <2>2, <2>3 DEF ConsentAt
<1>17. EventsMatchOf(q.inst)'
  <2>1. events[q.inst] \in Seq(Verdicts \union {"ADVANCED"})
    BY <1>3 DEF TypeOK
  <2>2. \A n \in 1..Len(events[q.inst]) : events[q.inst][n] = "ADVANCED"
    BY <1>3 DEF Sound, EventsMatchOf, Verdicts
  <2>3. events'[q.inst] = Append(events[q.inst], "ADVANCED")
    BY <1>2, <1>3 DEF TypeOK
  <2>4. Len(events'[q.inst]) = Len(events[q.inst]) + 1 /\ Len(events[q.inst]) \in Nat
    BY <2>1, <2>3
  <2>5. \A n \in 1..Len(events'[q.inst]) : events'[q.inst][n] = "ADVANCED"
    BY <2>1, <2>2, <2>3, <2>4
  <2>6. status'[q.inst] \notin Verdicts
    BY <1>2, <1>3 DEF Verdicts
  <2> QED
    BY <2>4, <2>5, <2>6 DEF EventsMatchOf
<1>18. ApprovedBySomebody(q.inst)'
  BY <1>2, <1>3 DEF ApprovedBySomebody
<1>19. Sound(q.inst)'
  BY <1>13, <1>14, <1>15, <1>16, <1>17, <1>18 DEF Sound
<1>20. \A j \in Instances : Sound(j)'
  BY <1>4, <1>19, Elsewhere DEF IInv
<1> QED
  BY <1>9, <1>10, <1>20 DEF IInv

LEMMA WithdrawSound ==
  ASSUME IInv, NEW i \in Instances, Withdraw(i)
  PROVE  IInv'
<1>1. /\ TypeOK /\ LoadedAhead /\ Sound(i) /\ status[i] = "RUNNING"
      /\ status' = [status EXCEPT ![i] = "CANCELLED"]
      /\ task' = [task EXCEPT ![i] = CancelPending(task[i])]
      /\ UNCHANGED <<doc, key, flow, current, events, loaded>>
  BY DEF IInv, Withdraw
<1>2. \A j \in Instances : j # i => Same(j)
  BY <1>1 DEF TypeOK, Same
<1>3. task[i] \in Tables /\ task'[i] = CancelPending(task[i]) /\ status'[i] = "CANCELLED"
  BY <1>1 DEF TypeOK, Tables
<1>4. CancelPending(task[i]) \in Tables /\ \A j \in Steps, p \in People : task'[i][j][p] # "PENDING"
  BY <1>3, CancelShape
<1>5. TypeOK'
  <2>1. task' \in [Instances -> [Steps -> [People -> TaskStates]]]
    BY <1>1, <1>4 DEF TypeOK, Tables
  <2> QED
    BY <1>1, <2>1 DEF TypeOK
<1>6. LoadedAhead'
  BY <1>1, <1>2, <1>3, LoadedSame DEF Same
<1>7. OpenAt(i)' = {}
  BY <1>4 DEF OpenAt, PendingAt
<1>8. Opened(i)'
  BY <1>1, <1>3 DEF Sound, Opened
<1>9. NoDissent(i)' /\ OneOpenStepOf(i)' /\ ConsentOf(i)' /\ ApprovedBySomebody(i)'
  BY <1>3, <1>7 DEF NoDissent, OneOpenStepOf, ConsentOf, ApprovedBySomebody
<1>10. EventsMatchOf(i)'
  BY <1>1, <1>3 DEF Sound, EventsMatchOf, Verdicts
<1>11. Sound(i)'
  BY <1>8, <1>9, <1>10 DEF Sound
<1>12. \A j \in Instances : Sound(j)'
  BY <1>2, <1>11, Elsewhere DEF IInv
<1> QED
  BY <1>5, <1>6, <1>12 DEF IInv

LEMMA LoadSound ==
  ASSUME IInv, NEW r \in Requests, NEW i \in Instances, NEW k \in Steps, NEW p \in People,
         NEW action \in {"APPROVE", "REJECT", "RETURN"}, Load(r, i, k, p, action)
  PROVE  IInv'
<1>1. TypeOK /\ LoadedAhead /\ (\A j \in Instances : Sound(j)) /\ Opened(i)
  BY DEF IInv, Sound
<1>2. UNCHANGED <<status, doc, key, flow, current, task, events>>
  BY DEF Load, instVars
<1>3. status[i] # "none" /\ loaded' \in [Requests -> Loadable \union {Nil}]
  BY <1>1, LoadShape
<1>4. PICK q \in Loadable :
        /\ loaded' = [loaded EXCEPT ![r] = q] /\ q.inst = i /\ q.step = k
        /\ q.next # Nil => q.next.step > k /\ q.next.staff # {}
  BY <1>1, LoadShape
<1>5. TypeOK'
  BY <1>1, <1>2, <1>3 DEF TypeOK
<1>6. LoadedAhead'
  <2>1. SUFFICES ASSUME NEW s \in Requests, loaded'[s] # Nil
                 PROVE  /\ status'[loaded'[s].inst] # "none"
                        /\ loaded'[s].next # Nil =>
                             loaded'[s].next.step > loaded'[s].step /\ loaded'[s].next.staff # {}
    BY DEF LoadedAhead
  <2>2. CASE s = r
    <3>1. loaded'[s] = q
      BY <1>1, <1>4, <2>2 DEF TypeOK
    <3> QED
      BY <1>2, <1>3, <1>4, <3>1
  <2>3. CASE s # r
    <3>1. loaded'[s] = loaded[s]
      BY <1>1, <1>4, <2>3 DEF TypeOK
    <3> QED
      BY <1>1, <1>2, <2>1, <3>1 DEF LoadedAhead
  <2> QED
    BY <2>2, <2>3
<1>7. \A j \in Instances : Sound(j)'
  BY <1>1, <1>2, Elsewhere DEF Same
<1> QED
  BY <1>5, <1>6, <1>7 DEF IInv

(* A request that gives up, or no request at all.                          *)
LEMMA IdleSound ==
  ASSUME IInv, UNCHANGED <<instVars, task, events>>,
         loaded' = loaded \/ \E r \in Requests : loaded' = [loaded EXCEPT ![r] = Nil]
  PROVE  IInv'
<1>1. TypeOK /\ LoadedAhead /\ \A j \in Instances : Sound(j)
  BY DEF IInv
<1>2. UNCHANGED <<status, doc, key, flow, current, task, events>>
  BY DEF instVars
<1>3. TypeOK'
  BY <1>1, <1>2 DEF TypeOK
<1>4. LoadedAhead'
  BY <1>1, <1>2, LoadedSame, LoadedStays
<1>5. \A j \in Instances : Sound(j)'
  BY <1>1, <1>2, Elsewhere DEF Same
<1> QED
  BY <1>3, <1>4, <1>5 DEF IInv

-----------------------------------------------------------------------------
(* The inductive invariant.                                                *)

LEMMA InitSound == Init => IInv
<1> SUFFICES ASSUME Init PROVE IInv
  OBVIOUS
<1>1. LoadedAhead
  BY DEF Init, LoadedAhead
<1>2. ASSUME NEW i \in Instances PROVE Sound(i)
  <2>1. /\ status[i] = "none" /\ doc[i] = Nil /\ key[i] = Nil /\ current[i] = 1 /\ events[i] = <<>>
        /\ \A k \in Steps, p \in People : task[i][k][p] = "none"
    BY DEF Init
  <2>2. OpenAt(i) = {}
    BY <2>1 DEF OpenAt, PendingAt
  <2>3. Opened(i) /\ NoDissent(i) /\ OneOpenStepOf(i) /\ ConsentOf(i) /\ ApprovedBySomebody(i)
    BY <2>1, <2>2 DEF Opened, NoDissent, OneOpenStepOf, ConsentOf, ApprovedBySomebody
  <2>4. EventsMatchOf(i)
    <3>1. events[i] = <<>> /\ Len(events[i]) = 0 /\ status[i] \notin Verdicts
      BY <2>1 DEF Verdicts
    <3> QED
      BY <3>1 DEF EventsMatchOf
  <2> QED
    BY <2>3, <2>4 DEF Sound
<1> QED
  BY <1>1, <1>2, InitType DEF IInv

LEMMA StepSound == IInv /\ [Next]_vars => IInv'
<1> SUFFICES ASSUME IInv, [Next]_vars PROVE IInv'
  OBVIOUS
<1>1. ASSUME NEW i \in Instances, NEW d \in Docs, NEW k \in Keys \union {Nil},
             NEW f \in Flows[d], NEW o \in FirstAsked(d, f), Submit(i, d, k, f, o)
      PROVE  IInv'
  BY <1>1, SubmitSound
<1>2. ASSUME NEW r \in Requests, NEW i \in Instances, NEW k \in Steps, NEW p \in People,
             NEW action \in {"APPROVE", "REJECT", "RETURN"}, Load(r, i, k, p, action)
      PROVE  IInv'
  BY <1>2, LoadSound
<1>3. ASSUME NEW r \in Requests, Abort(r) PROVE IInv'
  BY <1>3, IdleSound DEF Abort
<1>4. ASSUME NEW r \in Requests, TurnDown(r) \/ AwaitColleagues(r) \/ Approve(r) \/ PassOn(r)
      PROVE  IInv'
  BY <1>4, TurnDownSound, AwaitSound, ApproveSound, PassOnSound
<1>5. ASSUME NEW i \in Instances, Withdraw(i) PROVE IInv'
  BY <1>5, WithdrawSound
<1>6. CASE UNCHANGED vars
  BY <1>6, IdleSound DEF vars
<1> QED
  BY <1>1, <1>2, <1>3, <1>4, <1>5, <1>6 DEF Next

(* Every state of the engine satisfies the inductive invariant.            *)
THEOREM Invariance == Spec => []IInv
<1>1. Init => IInv
  BY InitSound
<1>2. IInv /\ [Next]_vars => IInv'
  BY StepSound
<1> QED
  BY <1>1, <1>2, PTL DEF Spec

(* The tables of the approval service only ever hold values of their types. *)
THEOREM TypeCorrect == Spec => []TypeOK
<1>1. IInv => TypeOK
  BY DEF IInv
<1> QED
  BY <1>1, Invariance, PTL

(* However many approvers decide at once, a running instance has pending   *)
(* tasks at exactly one step and a finished one has none (act.go).         *)
THEOREM OnePendingStep == Spec => []OneOpenStep
<1>1. IInv => OneOpenStep
  BY DEF IInv, Sound, OneOpenStep
<1> QED
  BY <1>1, Invariance, PTL

(* No step is passed and no instance approved without the consent the      *)
(* step's mode demands, ALL or ANY (act.go:148-168).                       *)
THEOREM ConsentGiven == Spec => []Consent
<1>1. IInv => Consent
  BY DEF IInv, Sound, Consent
<1> QED
  BY <1>1, Invariance, PTL

(* An instance and its outbox events never disagree (act.go:34-36).        *)
THEOREM OutcomeAnnounced == Spec => []EventsMatchOutcome
<1>1. IInv => EventsMatchOutcome
  BY DEF IInv, Sound, EventsMatchOutcome
<1> QED
  BY <1>1, Invariance, PTL

(* No contract and no purchase order is approved for want of an approver   *)
(* (service.go, the fallbacks of Submit).                                  *)
THEOREM SomebodyApproves == Spec => []NobodyApprovesItself
<1>1. IInv => NobodyApprovesItself
  BY DEF IInv, Sound, NobodyApprovesItself
<1> QED
  BY <1>1, Invariance, PTL

-----------------------------------------------------------------------------
(* What no step may do.                                                    *)

Untouched(i) == status'[i] = status[i] /\ task'[i] = task[i] /\ events'[i] = events[i]

LEMMA OnlyOpenInstancesMove ==
  ASSUME IInv, [Next]_vars, NEW i \in Instances, status[i] \notin {"none", "RUNNING"}
  PROVE  Untouched(i)
<1>1. TypeOK
  BY DEF IInv
<1> USE DEF Untouched
<1>2. ASSUME NEW h \in Instances, NEW d \in Docs, NEW k \in Keys \union {Nil},
             NEW f \in Flows[d], NEW o \in FirstAsked(d, f), Submit(h, d, k, f, o)
      PROVE  Untouched(i)
  <2>1. h # i
    BY <1>2 DEF Submit
  <2> QED
    BY <1>1, <1>2, <2>1 DEF Submit, TypeOK
<1>3. ASSUME NEW r \in Requests, NEW h \in Instances, NEW k \in Steps, NEW p \in People,
             NEW action \in {"APPROVE", "REJECT", "RETURN"}, Load(r, h, k, p, action)
      PROVE  Untouched(i)
  BY <1>3 DEF Load, instVars
<1>4. ASSUME NEW r \in Requests, Abort(r) PROVE Untouched(i)
  BY <1>4 DEF Abort, instVars
<1>5. ASSUME NEW r \in Requests, Acting(r) PROVE loaded[r].inst \in Instances /\ loaded[r].inst # i
  BY <1>5, ActingFacts
<1>6. ASSUME NEW r \in Requests, TurnDown(r) PROVE Untouched(i)
  BY <1>1, <1>5, <1>6 DEF TurnDown, Finish, TypeOK
<1>7. ASSUME NEW r \in Requests, AwaitColleagues(r) PROVE Untouched(i)
  BY <1>1, <1>5, <1>7 DEF AwaitColleagues, TypeOK
<1>8. ASSUME NEW r \in Requests, Approve(r) PROVE Untouched(i)
  BY <1>1, <1>5, <1>8 DEF Approve, Finish, TypeOK
<1>9. ASSUME NEW r \in Requests, PassOn(r) PROVE Untouched(i)
  BY <1>1, <1>5, <1>9 DEF PassOn, TypeOK
<1>10. ASSUME NEW h \in Instances, Withdraw(h) PROVE Untouched(i)
  BY <1>1, <1>10 DEF Withdraw, TypeOK
<1>11. CASE UNCHANGED vars
  BY <1>11 DEF vars, instVars
<1> QED
  BY <1>2, <1>3, <1>4, <1>6, <1>7, <1>8, <1>9, <1>10, <1>11 DEF Next

(* A decision or a withdrawal that comes too late changes nothing about a  *)
(* finished instance, whatever its request had read before (act.go:111-129). *)
THEOREM FinishedStays == Spec => FinishedForGood
<1> DEFINE A == \A i \in Instances :
      status[i] \notin {"none", "RUNNING"} =>
        /\ status'[i] = status[i] /\ task'[i] = task[i] /\ events'[i] = events[i]
<1>1. IInv /\ [Next]_vars => [A]_vars
  BY OnlyOpenInstancesMove DEF Untouched
<1> QED
  BY <1>1, Invariance, PTL DEF Spec, FinishedForGood

-----------------------------------------------------------------------------
(* The engine implements the desk.                                         *)

LEMMA AnnouncedSame ==
  ASSUME NEW i \in Instances, status'[i] = status[i], events'[i] = events[i]
  PROVE  Announced(i)' = Announced(i)
  BY DEF Announced

LEMMA DeskInit == Init => Desk!Init
<1> SUFFICES ASSUME Init PROVE Desk!Init
  OBVIOUS
<1>1. \A i \in Instances : Announced(i) = "none"
  BY DEF Init, Announced, Verdicts
<1> QED
  BY <1>1 DEF Init, Desk!Init

(* An instance that opens, concludes or is recalled does so at the desk;   *)
(* the announcements of the others stay.                                   *)
LEMMA DeskAnnounces ==
  ASSUME NEW i \in Instances, NEW a, Announced(i)' = a,
         \A j \in Instances : j # i => Announced(j)' = Announced(j)
  PROVE  [j \in Instances |-> Announced(j)]' = [[j \in Instances |-> Announced(j)] EXCEPT ![i] = a]
  OBVIOUS

LEMMA DeskStutters ==
  ASSUME UNCHANGED <<status, doc, key>>, \A j \in Instances : Announced(j)' = Announced(j)
  PROVE  UNCHANGED Desk!deskVars
  BY DEF Desk!deskVars

LEMMA DeskOpens ==
  ASSUME IInv, NEW i \in Instances, NEW d \in Docs, NEW k \in Keys \union {Nil},
         NEW f \in Flows[d], NEW o \in FirstAsked(d, f), Submit(i, d, k, f, o)
  PROVE  Desk!Next
<1>1. TypeOK
  BY DEF IInv
<1>2. PICK s \in {"RUNNING", "APPROVED"} :
        /\ status' = [status EXCEPT ![i] = s]
        /\ s = "APPROVED" => events'[i] = <<"APPROVED">>
        /\ \A j \in Instances : j # i => events'[j] = events[j]
  BY <1>1 DEF Submit, TypeOK
<1>3. /\ status[i] = "none" /\ ~InFlight(d) /\ ~Answered(d, k)
      /\ doc' = [doc EXCEPT ![i] = d] /\ key' = [key EXCEPT ![i] = k]
  BY DEF Submit
<1>4. Announced(i)' = IF s = "RUNNING" THEN "none" ELSE s
  <2>1. status'[i] = s
    BY <1>1, <1>2 DEF TypeOK
  <2>2. CASE s = "RUNNING"
    BY <2>1, <2>2 DEF Announced, Verdicts
  <2>3. CASE s = "APPROVED"
    <3>1. events'[i] = <<"APPROVED">> /\ Len(events'[i]) = 1 /\ events'[i][1] = "APPROVED"
      BY <1>2, <2>3
    <3> QED
      BY <2>1, <2>3, <3>1 DEF Announced, Verdicts
  <2> QED
    BY <2>2, <2>3
<1>5. \A j \in Instances : j # i => Announced(j)' = Announced(j)
  BY <1>1, <1>2, AnnouncedSame DEF TypeOK
<1>6. [j \in Instances |-> Announced(j)]' =
        [[j \in Instances |-> Announced(j)] EXCEPT ![i] = IF s = "RUNNING" THEN "none" ELSE s]
  BY <1>4, <1>5, DeskAnnounces
<1>7. Desk!Open(i, d, k, s)
  BY <1>2, <1>3, <1>6 DEF Desk!Open, Desk!InFlight, Desk!Answered, InFlight, Answered
<1> QED
  BY <1>7 DEF Desk!Next

LEMMA DeskConcludes ==
  ASSUME IInv, NEW i \in Instances, NEW v \in Verdicts, NEW t \in Tables,
         status[i] = "RUNNING", Finish(i, v, t), UNCHANGED <<doc, key, flow>>
  PROVE  Desk!Next
<1>1. TypeOK
  BY DEF IInv
<1>2. status' = [status EXCEPT ![i] = v] /\ events' = [events EXCEPT ![i] = Append(events[i], v)]
  BY DEF Finish
<1>3. Announced(i)' = v
  <2>1. events[i] \in Seq(Verdicts \union {"ADVANCED"}) /\ v \in Verdicts \union {"ADVANCED"}
    BY <1>1 DEF TypeOK
  <2>2. events'[i] = Append(events[i], v) /\ status'[i] = v
    BY <1>1, <1>2 DEF TypeOK
  <2>3. Len(events'[i]) = Len(events[i]) + 1 /\ events'[i][Len(events[i]) + 1] = v
    BY <2>1, <2>2
  <2> QED
    BY <2>2, <2>3 DEF Announced
<1>4. \A j \in Instances : j # i => Announced(j)' = Announced(j)
  BY <1>1, <1>2, AnnouncedSame DEF TypeOK
<1>5. [j \in Instances |-> Announced(j)]' = [[j \in Instances |-> Announced(j)] EXCEPT ![i] = v]
  BY <1>3, <1>4, DeskAnnounces
<1>6. Desk!Conclude(i, v)
  BY <1>2, <1>5 DEF Desk!Conclude
<1> QED
  BY <1>6 DEF Desk!Next, Desk!Verdicts, Verdicts

LEMMA DeskRecalls ==
  ASSUME IInv, NEW i \in Instances, Withdraw(i)
  PROVE  Desk!Next
<1>1. TypeOK /\ status[i] = "RUNNING" /\ status' = [status EXCEPT ![i] = "CANCELLED"]
      /\ UNCHANGED <<doc, key, events>>
  BY DEF IInv, Withdraw
<1>2. \A j \in Instances : Announced(j)' = Announced(j)
  BY <1>1 DEF TypeOK, Announced, Verdicts
<1>3. [j \in Instances |-> Announced(j)]' = [j \in Instances |-> Announced(j)]
  BY <1>2
<1>4. Desk!Recall(i)
  BY <1>1, <1>3 DEF Desk!Recall
<1> QED
  BY <1>4 DEF Desk!Next

LEMMA DeskStep == IInv /\ [Next]_vars => [Desk!Next]_(Desk!deskVars)
<1> SUFFICES ASSUME IInv, [Next]_vars PROVE [Desk!Next]_(Desk!deskVars)
  OBVIOUS
<1>1. TypeOK
  BY DEF IInv
<1>2. ASSUME NEW i \in Instances, NEW d \in Docs, NEW k \in Keys \union {Nil},
             NEW f \in Flows[d], NEW o \in FirstAsked(d, f), Submit(i, d, k, f, o)
      PROVE  Desk!Next
  BY <1>2, DeskOpens
<1>3. ASSUME UNCHANGED <<status, doc, key, events>> PROVE UNCHANGED Desk!deskVars
  BY <1>3, AnnouncedSame, DeskStutters
<1>4. ASSUME NEW r \in Requests, NEW i \in Instances, NEW k \in Steps, NEW p \in People,
             NEW action \in {"APPROVE", "REJECT", "RETURN"}, Load(r, i, k, p, action)
      PROVE  UNCHANGED Desk!deskVars
  BY <1>3, <1>4 DEF Load, instVars
<1>5. ASSUME NEW r \in Requests, Abort(r) PROVE UNCHANGED Desk!deskVars
  BY <1>3, <1>5 DEF Abort, instVars
<1>6. ASSUME NEW r \in Requests, TurnDown(r) PROVE Desk!Next
  <2>1. PICK q \in Loadable : q = loaded[r]
    BY <1>6, ActingFacts DEF TurnDown
  <2>2. Acting(r) /\ Finish(q.inst, q.verdict, Decided(q))
    BY <1>6, <2>1 DEF TurnDown
  <2>3. q.inst \in Instances /\ q.verdict \in Verdicts /\ status[q.inst] = "RUNNING"
        /\ Decided(q) \in Tables /\ UNCHANGED <<doc, key, flow>>
    BY <1>1, <2>1, <2>2, ActingFacts, DecidedShape DEF Acting
  <2> QED
    BY <2>2, <2>3, DeskConcludes
<1>7. ASSUME NEW r \in Requests, AwaitColleagues(r) PROVE UNCHANGED Desk!deskVars
  BY <1>3, <1>7 DEF AwaitColleagues, Acting
<1>8. ASSUME NEW r \in Requests, Approve(r) PROVE Desk!Next
  <2>1. PICK q \in Loadable : q = loaded[r]
    BY <1>8, ActingFacts DEF Approve
  <2>2. Acting(r) /\ Finish(q.inst, "APPROVED", Settled(q))
    BY <1>8, <2>1 DEF Approve
  <2>3. q.inst \in Instances /\ "APPROVED" \in Verdicts /\ status[q.inst] = "RUNNING"
        /\ Settled(q) \in Tables /\ UNCHANGED <<doc, key, flow>>
    BY <1>1, <2>1, <2>2, ActingFacts, SettledShape DEF Acting, Verdicts
  <2> QED
    BY <2>2, <2>3, DeskConcludes
<1>9. ASSUME NEW r \in Requests, PassOn(r) PROVE UNCHANGED Desk!deskVars
  <2>1. PICK q \in Loadable : q = loaded[r]
    BY <1>9, ActingFacts DEF PassOn
  <2>2. /\ q.inst \in Instances /\ status[q.inst] = "RUNNING" /\ UNCHANGED <<status, doc, key>>
        /\ \A j \in Instances : j # q.inst => events'[j] = events[j]
    BY <1>1, <1>9, <2>1, ActingFacts DEF PassOn, Acting, TypeOK
  <2>3. \A j \in Instances : Announced(j)' = Announced(j)
    <3>1. Announced(q.inst)' = Announced(q.inst)
      BY <2>2 DEF Announced, Verdicts
    <3>2. ASSUME NEW j \in Instances, j # q.inst PROVE Announced(j)' = Announced(j)
      BY <2>2, <3>2, AnnouncedSame
    <3> QED
      BY <3>1, <3>2
  <2> QED
    BY <2>2, <2>3, DeskStutters
<1>10. ASSUME NEW i \in Instances, Withdraw(i) PROVE Desk!Next
  BY <1>10, DeskRecalls
<1>11. CASE UNCHANGED vars
  BY <1>3, <1>11 DEF vars, instVars
<1> QED
  BY <1>2, <1>4, <1>5, <1>6, <1>7, <1>8, <1>9, <1>10, <1>11 DEF Next

(* For the services that submit documents the engine is the desk: a request *)
(* opens one instance, an instance ends once and announces what it ended    *)
(* with exactly then.                                                       *)
THEOREM Refinement == Spec => ImplementsDesk
<1>1. Init => Desk!Init
  BY DeskInit
<1>2. IInv /\ [Next]_vars => [Desk!Next]_(Desk!deskVars)
  BY DeskStep
<1> QED
  BY <1>1, <1>2, Invariance, PTL DEF Spec, ImplementsDesk, Desk!Spec
=============================================================================
