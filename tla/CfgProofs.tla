---- MODULE CfgProofs ----
(***************************************************************************)
(* What is proved about the configuration store, for any number of         *)
(* parameters, values and places in the table.                             *)
(***************************************************************************)
EXTENDS CfgStore, FiniteSetTheorems, TLAPS

\* While the device starts the table holds what has been read, which is why
\* there is room for the rest; after that it holds all of the program's
\* parameters, whatever other names were set.
KnownInTable ==
    IF cfg.at = "boot" THEN table = Known \ cfg.left ELSE Known \subseteq table

CfgInv == CfgTypeOK /\ IsFiniteSet(table) /\ KnownInTable

\* cfgs_param_register() keeps what is in the table and its bound.
LEMMA RegisterType ==
    ASSUME CfgTypeOK, IsFiniteSet(table), NEW p \in Names
    PROVE  /\ table \subseteq Registered(p) /\ Registered(p) \subseteq Names
           /\ IsFiniteSet(Registered(p)) /\ Cardinality(Registered(p)) <= MaxVars
<1>1. IsFiniteSet(table \cup {p})
  BY FS_AddElement
<1>2. Cardinality(table) \in Nat
  BY FS_CardinalityType
<1>4. \/ Cardinality(table \cup {p}) = Cardinality(table)
      \/ Cardinality(table \cup {p}) = Cardinality(table) + 1
  <2>1. CASE p \in table
    <3>1. table \cup {p} = table
      BY <2>1
    <3> QED
      BY <3>1
  <2>2. CASE p \notin table
    BY <2>2, FS_AddElement
  <2> QED
    BY <2>1, <2>2
<1>3. Cardinality(table \cup {p}) \in Nat
  BY <1>1, FS_CardinalityType
<1> QED
  BY <1>1, <1>2, <1>3, <1>4, CfgAssumption DEF Registered, CfgTypeOK

\* A parameter that is read while the device starts finds room.
LEMMA RegisterFits ==
    ASSUME CfgInv, cfg.at = "boot", NEW p \in cfg.left
    PROVE  Registered(p) = table \cup {p}
<1>1. p \in Known /\ table \subseteq Known /\ p \notin table
  BY DEF CfgInv, CfgTypeOK, KnownInTable, Boots, Works
<1>2. Cardinality(table) <= Cardinality(Known) /\ Cardinality(table) # Cardinality(Known)
  BY <1>1, CfgAssumption, FS_Subset
<1>3. Cardinality(table) \in Nat /\ Cardinality(Known) \in Nat
  BY CfgAssumption, FS_CardinalityType DEF CfgInv
<1> QED
  BY <1>2, <1>3, CfgAssumption DEF Registered

\* A parameter's file is removed, or none is.
LEMMA WithoutType ==
    ASSUME CfgTypeOK, NEW q \in Names \cup {"."}
    PROVE  /\ Without(q) \in [Names -> Values \cup {"default"}]
           /\ \A p \in Names : p # q => Without(q)[p] = file[p]
BY DEF Without, CfgTypeOK

\* The invariant holds at first.
LEMMA CfgInvInit == CfgInit => CfgInv
<1> SUFFICES ASSUME CfgInit PROVE CfgInv
  OBVIOUS
<1>1. IsFiniteSet(table) /\ Cardinality(table) = 0
  BY FS_EmptySet DEF CfgInit
<1>2. table = Known \ cfg.left
  BY DEF CfgInit
<1> QED
  BY <1>1, <1>2, CfgAssumption DEF CfgInit, CfgInv, CfgTypeOK, KnownInTable, Names, Boots

\* The device starts again.
LEMMA BootsKeep == ASSUME CfgInv, NEW by \in {"power", "watchdog"}, CfgBoots(by) PROVE CfgInv'
<1>1. IsFiniteSet(table') /\ Cardinality(table') = 0
  BY FS_EmptySet DEF CfgBoots
<1>2. cfg' \in Boots /\ cfg'.at = "boot" /\ cfg'.left = Known
  BY DEF CfgBoots, Boots
<1> QED
  BY <1>1, <1>2, CfgAssumption DEF CfgBoots, CfgInv, CfgTypeOK, KnownInTable

\* Once the device has started, a step that adds to the table at most, and stores what is
\* typed, keeps the invariant.
LEMMA WorkKeeps ==
    ASSUME CfgInv, cfg.at # "boot" \/ cfg.left = {}, cfg' \in Works,
           file' \in [Names -> Values \cup {"default"}], dir' \in BOOLEAN,
           buf' \in Names \cup {"."},
           table' = table \/ \E p \in Names : table' = Registered(p)
    PROVE  CfgInv'
<1>1. Known \subseteq table
  BY DEF CfgInv, KnownInTable
<1>2. cfg'.at # "boot"
  BY DEF Works
<1>3. /\ table \subseteq table' /\ table' \subseteq Names /\ IsFiniteSet(table')
      /\ Cardinality(table') <= MaxVars
  BY RegisterType DEF CfgInv, CfgTypeOK
<1> QED
  BY <1>1, <1>2, <1>3 DEF CfgInv, CfgTypeOK, KnownInTable

\* Every step of the main loop keeps the invariant.
LEMMA MainKeeps == ASSUME CfgInv, CfgMain PROVE CfgInv'
<1>t. /\ CfgTypeOK /\ file \in [Names -> Values \cup {"default"}] /\ dir \in BOOLEAN
      /\ buf \in Names \cup {"."} /\ cfg \in Boots \cup Works /\ Stored \subseteq Names
  BY DEF CfgInv, CfgTypeOK, Stored
<1>1. ASSUME NEW p \in Names, CfgGet(p) PROVE CfgInv'
  <2>1. p \in cfg.left /\ cfg.at = "boot" /\ table' = table \cup {p}
    BY <1>1, RegisterFits DEF CfgGet
  <2>2. cfg \in Boots
    BY <1>t, <2>1 DEF Works
  <2>3. cfg' \in Boots /\ cfg'.at = "boot" /\ cfg'.left = cfg.left \ {p}
    BY <1>1, <2>2 DEF CfgGet, Boots
  <2>4. table' = Known \ cfg'.left
    BY <2>1, <2>2, <2>3 DEF KnownInTable, CfgInv, Boots
  <2>5. table' \subseteq Names /\ IsFiniteSet(table') /\ Cardinality(table') <= MaxVars
    BY <1>1, RegisterType DEF CfgGet, CfgInv
  <2> QED
    BY <1>1, <1>t, <2>3, <2>4, <2>5 DEF CfgGet, CfgInv, CfgTypeOK, KnownInTable
<1>2. ASSUME NEW p \in Names, CfgDel(p) PROVE CfgInv'
  <2>1. cfg' \in Works
    BY <1>2 DEF CfgDel, Works
  <2> QED
    BY <1>2, <1>t, <2>1, WorkKeeps DEF CfgDel
<1>3. ASSUME NEW p \in Names, NEW v \in Values, CfgSet(p, v) PROVE CfgInv'
  <2>1. cfg' \in Works
    BY <1>3 DEF CfgSet, Works
  <2> QED
    BY <1>3, <1>t, <2>1, WorkKeeps DEF CfgSet
<1>4. ASSUME NEW p \in Names, CfgVisit(p) PROVE CfgInv'
  <2>1. cfg \in [at : {"purge"}, left : SUBSET Names]
    BY <1>4, <1>t DEF CfgVisit, Boots, Works
  <2>2. cfg' \in Works /\ buf' \in Names \cup {"."}
    BY <1>4, <1>t, <2>1 DEF CfgVisit, Works
  <2> QED
    BY <1>4, <1>t, <2>1, <2>2, WorkKeeps DEF CfgVisit
<1>5. CASE CfgStarted
  <2>1. cfg' \in Works
    BY <1>5 DEF CfgStarted, Works
  <2> QED
    BY <1>5, <1>t, <2>1, WorkKeeps DEF CfgStarted
<1>6. CASE CfgOpen
  <2>1. cfg.asked \in Names /\ cfg.v \in Values
    BY <1>6, <1>t DEF CfgOpen, Boots, Works
  <2>2. cfg' \in Works
    BY <1>6, <1>t, <2>1 DEF CfgOpen, Works
  <2> QED
    BY <1>6, <1>t, <2>2, WorkKeeps DEF CfgOpen
<1>7. CASE CfgClose
  <2>1. cfg.p \in Names /\ cfg.v \in Values
    BY <1>7, <1>t DEF CfgClose, Boots, Works
  <2>2. cfg' \in Works /\ file' \in [Names -> Values \cup {"default"}]
    BY <1>7, <1>t, <2>1 DEF CfgClose, Works
  <2> QED
    BY <1>7, <1>t, <2>2, WorkKeeps DEF CfgClose
<1>8. CASE CfgDelete
  <2>1. cfg' \in Works
    BY <1>8 DEF CfgDelete, Works
  <2> QED
    BY <1>8, <1>t, <2>1, WithoutType, WorkKeeps DEF CfgDelete
<1>9. CASE CfgPurge
  <2>1. cfg' \in Works
    BY <1>9, <1>t DEF CfgPurge, Works
  <2> QED
    BY <1>9, <1>t, <2>1, WorkKeeps DEF CfgPurge
<1>10. CASE CfgPurgeOne
  <2>1. cfg.left \subseteq Names
    BY <1>10, <1>t DEF CfgPurgeOne, Boots, Works
  <2>2. cfg' \in Works
    BY <1>10, <2>1 DEF CfgPurgeOne, Works
  <2> QED
    BY <1>10, <1>t, <2>2, WithoutType, WorkKeeps DEF CfgPurgeOne
<1>11. CASE CfgPurged
  <2>1. cfg' \in Works
    BY <1>11 DEF CfgPurged, Works
  <2> QED
    BY <1>11, <1>t, <2>1, WorkKeeps DEF CfgPurged
<1>12. CASE CfgReset
  <2>1. cfg' \in Works /\ buf' \in Names \cup {"."}
    BY <1>12, <1>t DEF CfgReset, Works
  <2> QED
    BY <1>12, <1>t, <2>1, WorkKeeps DEF CfgReset
<1>13. CASE CfgResetOne
  <2>1. cfg' \in Works
    BY <1>13 DEF CfgResetOne, Works
  <2>2. dir' = (dir /\ (buf # "." \/ Stored # {}))
    BY <1>13 DEF CfgResetOne
  <2>3. dir' \in BOOLEAN
    BY <2>2, Zenon
  <2> QED
    BY <1>13, <1>t, <2>1, <2>3, WithoutType, WorkKeeps DEF CfgResetOne
<1> QED
  BY <1>1, <1>2, <1>3, <1>4, <1>5, <1>6, <1>7, <1>8, <1>9, <1>10, <1>11, <1>12, <1>13
  DEF CfgMain

\* Every command of the web keeps the invariant.
LEMMA WebKeeps == ASSUME CfgInv, CfgWeb PROVE CfgInv'
<1>t. /\ CfgTypeOK /\ file \in [Names -> Values \cup {"default"}] /\ dir \in BOOLEAN
      /\ buf \in Names \cup {"."} /\ table \subseteq Names /\ Stored \subseteq Names
  BY DEF CfgInv, CfgTypeOK, Stored
<1>0. cfg.at # "boot" /\ cfg \in Works
  BY DEF CfgWeb, WebDel, WebSet, WebPurge, WebList, WebReset, CfgServing, CfgInv, CfgTypeOK, Boots
<1>1. ASSUME NEW p \in Names, WebDel(p) PROVE CfgInv'
  BY <1>0, <1>1, <1>t, WithoutType, WorkKeeps DEF WebDel
<1>2. ASSUME NEW p \in Names, NEW v \in Values, WebSet(p, v) PROVE CfgInv'
  BY <1>0, <1>2, <1>t, WorkKeeps DEF WebSet
<1>3. CASE WebPurge
  <2>1. file' \in [Names -> Values \cup {"default"}] /\ buf' \in Names \cup {"."}
    BY <1>3, <1>t DEF WebPurge
  <2> QED
    BY <1>0, <1>3, <1>t, <2>1, WorkKeeps DEF WebPurge
<1>4. CASE WebList
  BY <1>0, <1>4, <1>t, WorkKeeps DEF WebList
<1>5. CASE WebReset
  <2>1. CASE Stored = {}
    BY <1>0, <1>5, <1>t, <2>1, WorkKeeps DEF WebReset
  <2>2. CASE Stored # {}
    <3>1. cfg' = [at |-> "loop"] /\ dir' = dir /\ file' = file /\ table' = table /\ buf' = "."
      BY <1>5, <2>2 DEF WebReset
    <3>2. cfg' \in Works
      BY <3>1 DEF Works
    <3> QED
      BY <1>0, <1>t, <3>1, <3>2, WorkKeeps
  <2> QED
    BY <2>1, <2>2
<1> QED
  BY <1>1, <1>2, <1>3, <1>4, <1>5 DEF CfgWeb

\* Every step keeps the invariant.
LEMMA CfgInvNext == CfgInv /\ [CfgNext]_cfgVars => CfgInv'
<1> SUFFICES ASSUME CfgInv, [CfgNext]_cfgVars PROVE CfgInv'
  OBVIOUS
<1>1. CASE PowerFails \/ CfgWatchdog
  BY <1>1, BootsKeep DEF PowerFails, CfgWatchdog
<1>2. CASE UNCHANGED cfgVars
  BY <1>2 DEF cfgVars, CfgInv, CfgTypeOK, KnownInTable
<1> QED
  BY <1>1, <1>2, MainKeeps, WebKeeps DEF CfgNext

\* The table never holds more than MAX_VARS parameters, and what is stored is a
\* value (cfgs_param_register, cfgs_param_store).
THEOREM CfgTypes == CfgSpec => []CfgTypeOK
<1>1. CfgInv => CfgTypeOK
  BY DEF CfgInv
<1> QED
  BY <1>1, CfgInvInit, CfgInvNext, PTL DEF CfgSpec

\* A parameter of the program changes by its own set and del and by a reset only: a purge
\* finds it in the table, for the table is filled by the program before commands come,
\* and the path a command has formatted is the one it uses.  The one exception is a
\* command of the main loop whose path a command of the web has overwritten
\* (cfgs_param_store, cfgs_param_remove, cfgs_purge_uknown).
THEOREM ConfigStays == CfgSpec => ConfigKept
<1> DEFINE Kept == \A p \in Known : file'[p] # file[p] => OwnCommand(p) \/ PathOverwritten
           AskedUnknown == cfg.at = "named" /\ cfg.do = "purge" => cfg.asked \notin Known
<1>1. CfgInv /\ AskedUnknown /\ [CfgNext]_cfgVars => [Kept]_cfgVars
  <2> SUFFICES ASSUME CfgInv, AskedUnknown, CfgNext, NEW p \in Known, file'[p] # file[p],
                      ~PathOverwritten
               PROVE  OwnCommand(p)
    OBVIOUS
  <2>t. /\ p \in Names /\ file \in [Names -> Values \cup {"default"}] /\ CfgTypeOK
        /\ buf \in Names \cup {"."} /\ cfg \in Boots \cup Works
    BY DEF Names, CfgInv, CfgTypeOK
  <2>1. ASSUME NEW q \in Names, WebDel(q) PROVE OwnCommand(p)
    <3>1. p = q
      BY <2>t, <2>1, WithoutType DEF WebDel
    <3> QED
      BY <2>1, <3>1 DEF OwnCommand
  <2>2. ASSUME NEW q \in Names, NEW v \in Values, WebSet(q, v) PROVE OwnCommand(p)
    <3>1. p = q
      BY <2>t, <2>2 DEF WebSet
    <3> QED
      BY <2>2, <3>1 DEF OwnCommand
  <2>3. CASE CfgClose
    <3>1. p = cfg.p /\ cfg.p = cfg.asked /\ cfg.at = "set"
      BY <2>t, <2>3 DEF CfgClose, PathOverwritten
    <3> QED
      BY <2>3, <3>1 DEF OwnCommand
  <2>4. CASE CfgDelete
    <3>1. p = buf /\ buf = cfg.asked /\ cfg.at = "named"
      BY <2>t, <2>4, WithoutType DEF CfgDelete, PathOverwritten
    <3> QED
      BY <2>4, <3>1 DEF OwnCommand
  <2>5. ~CfgPurgeOne
    <3> SUFFICES ASSUME CfgPurgeOne PROVE FALSE
      OBVIOUS
    <3>1. p = buf /\ buf = cfg.asked /\ cfg.asked \notin Known
      BY <2>t, WithoutType DEF CfgPurgeOne, PathOverwritten
    <3> QED
      BY <3>1
  <2>6. ~WebPurge
    <3> SUFFICES ASSUME WebPurge PROVE FALSE
      OBVIOUS
    <3>1. cfg.at # "boot" /\ p \in table
      BY DEF WebPurge, CfgServing, CfgInv, KnownInTable
    <3> QED
      BY <2>t, <3>1 DEF WebPurge
  <2>7. CASE CfgResetOne \/ WebReset
    BY <2>7 DEF OwnCommand
  <2> QED
    BY <2>1, <2>2, <2>3, <2>4, <2>5, <2>6, <2>7
    DEF CfgNext, CfgMain, CfgWeb, CfgGet, CfgSet, CfgDel, CfgVisit, CfgStarted, CfgOpen,
        CfgPurge, CfgPurged, CfgReset, WebList, PowerFails, CfgWatchdog, CfgBoots
<1>2. CfgInit => AskedUnknown
  BY DEF CfgInit
<1>3. CfgInv /\ AskedUnknown /\ [CfgNext]_cfgVars => AskedUnknown'
  <2> SUFFICES ASSUME CfgInv, AskedUnknown, [CfgNext]_cfgVars,
                      cfg'.at = "named", cfg'.do = "purge"
               PROVE  cfg'.asked \notin Known
    OBVIOUS
  <2>t. cfg \in Boots \cup Works
    BY DEF CfgInv, CfgTypeOK
  <2>1. CASE cfg' = cfg
    BY <2>1
  <2>2. ASSUME NEW p \in Names, CfgVisit(p), cfg' # cfg PROVE cfg'.asked \notin Known
    <3>1. cfg.at = "purge" /\ Known \subseteq table
      BY <2>2 DEF CfgVisit, CfgInv, KnownInTable
    <3>2. cfg \in [at : {"purge"}, left : SUBSET Names]
      BY <2>t, <3>1 DEF Boots, Works
    <3>3. cfg' = [at |-> "named", asked |-> p, do |-> "purge", left |-> cfg.left \ {p}] /\ p \notin table
      BY <2>2, <3>2 DEF CfgVisit
    <3> QED
      BY <3>1, <3>3
  <2>3. ASSUME NEW p \in Names, CfgGet(p) PROVE FALSE
    <3>1. cfg \in Boots
      BY <2>t, <2>3 DEF CfgGet, Works
    <3> QED
      BY <2>3, <3>1 DEF CfgGet, Boots
  <2>4. ASSUME \/ \E p \in Names : CfgDel(p) \/ \E v \in Values : CfgSet(p, v)
               \/ CfgStarted \/ CfgOpen \/ CfgClose \/ CfgDelete \/ CfgPurge \/ CfgPurgeOne
               \/ CfgPurged \/ CfgReset \/ CfgResetOne
        PROVE  FALSE
    BY <2>4 DEF CfgDel, CfgSet, CfgStarted, CfgOpen, CfgClose, CfgDelete, CfgPurge,
                CfgPurgeOne, CfgPurged, CfgReset, CfgResetOne
  <2>5. CASE CfgWeb
    BY <2>1, <2>5 DEF CfgWeb, WebDel, WebSet, WebPurge, WebList, WebReset
  <2>6. CASE PowerFails \/ CfgWatchdog
    BY <2>6 DEF PowerFails, CfgWatchdog, CfgBoots
  <2> QED
    BY <2>1, <2>2, <2>3, <2>4, <2>5, <2>6 DEF CfgNext, CfgMain, cfgVars
<1> QED
  BY <1>1, <1>2, <1>3, CfgInvInit, CfgInvNext, PTL DEF CfgSpec, ConfigKept
====
