--------------------------- MODULE IfEnslaveProofs ---------------------------
(***************************************************************************)
(* Proofs about ifenslave, for any slaves on the command line, any         *)
(* interfaces, any version of the driver and any number of failing ioctls. *)
(***************************************************************************)
EXTENDS IfEnslave, SequenceTheorems, TLAPS

\* What the constants are.
BondInstance ==
  /\ Master \notin Cards /\ SlaveLists \subseteq Seq(Cards)
  /\ Abis \subseteq Int /\ MaxFailures \in Nat

All == Cards \cup {Master}
Mtus == {1500, 9000}
Hardware == Cards \cup {NoHw, "bond"}
Iface == [master : BOOLEAN, ether : BOOLEAN, slave : BOOLEAN, up : BOOLEAN, mtu : Mtus,
          hw : Hardware, addr : {NoHw, "ip"}]
Ifaces == [All -> Iface]

\* The steps of each kind of command, those that take back what was done
\* first, and those that come after the mtu of the slave is set.
Early == {"start", "drvinfo", "settings"}
Undoing == {"undo_master_mac", "undo_slave_mac", "undo_mtu"}
MtuSet == {"hwaddr", "slave_hw", "slave_up", "master_down", "master_hw", "master_up", "enslave"}
Enslaving == {"down", "addr", "mtu"} \cup MtuSet \cup Undoing
Releasing == {"detach", "release_down", "release_mtu"}
InHand == Enslaving \cup Releasing \cup {"change", "next"}
Over == {"next", "release_down", "release_mtu"}
Steps == Early \cup InHand \cup {"slave", "end"}

IfTypes ==
  /\ dev \in Ifaces /\ before \in Ifaces
  /\ slaves \in Seq(Cards) /\ given_slaves \in Seq(Cards)
  /\ master_is \in Iface /\ slave_is \in Iface
  /\ hwaddr_set \in BOOLEAN /\ abi_ver \in Int /\ res \in 0 .. 2
  /\ cmd \in {"enslave", "detach", "change", "usage"}
  /\ failures \in Seq(Steps) /\ Len(failures) <= MaxFailures

\* Where the program is fits its command; a step that works on a slave has one.
StepsInv ==
  /\ step \in Steps
  /\ step \in Enslaving => cmd = "enslave"
  /\ step \in Releasing => cmd = "detach"
  /\ step = "change" => cmd = "change"
  /\ cmd = "usage" => step \in {"start", "end"}
  /\ step \in InHand => slaves # <<>>
  /\ step \in Early => dev = before /\ slaves = given_slaves
  /\ step \in Undoing => res # 0

LEMMA HeadTail ==
  ASSUME NEW s \in Seq(Cards), s # <<>>
  PROVE  /\ Head(s) \in Cards /\ Tail(s) \in Seq(Cards)
         /\ ToSet(s) = {Head(s)} \cup ToSet(Tail(s))
<1>1. Head(s) \in Cards /\ Tail(s) \in Seq(Cards)
  OBVIOUS
<1>2. ToSet(s) \subseteq {Head(s)} \cup ToSet(Tail(s))
  <2> SUFFICES ASSUME NEW i \in DOMAIN s, i # 1
               PROVE  \E k \in DOMAIN Tail(s) : Tail(s)[k] = s[i]
    BY DEF ToSet
  <2>1. i - 1 \in DOMAIN Tail(s) /\ Tail(s)[i - 1] = s[i]
    OBVIOUS
  <2> QED
    BY <2>1
<1>3. ToSet(Tail(s)) \subseteq ToSet(s)
  <2> SUFFICES ASSUME NEW k \in DOMAIN Tail(s)
               PROVE  \E i \in DOMAIN s : s[i] = Tail(s)[k]
    BY DEF ToSet
  <2>1. k + 1 \in DOMAIN s /\ s[k + 1] = Tail(s)[k]
    OBVIOUS
  <2> QED
    BY <2>1
<1>4. Head(s) \in ToSet(s)
  BY DEF ToSet
<1> QED
  BY <1>1, <1>2, <1>3, <1>4

LEMMA InRange == ASSUME NEW s \in Seq(Cards) PROVE ToSet(s) \subseteq Cards
BY DEF ToSet

\* A failure stays on record.
LEMMA Recorded ==
  ASSUME NEW S, NEW s \in Seq(S), NEW name \in S
  PROVE  ToSet(Append(s, name)) = ToSet(s) \cup {name}
<1> DEFINE t == Append(s, name)
<1>1. Len(s) \in Nat /\ DOMAIN s = 1 .. Len(s) /\ DOMAIN t = 1 .. Len(s) + 1
  OBVIOUS
<1>2. t[Len(s) + 1] = name /\ \A i \in DOMAIN s : t[i] = s[i]
  <2>1. t[Len(s) + 1] = name
    BY AppendProperties
  <2>2. ASSUME NEW i \in 1 .. Len(s) PROVE t[i] = s[i]
    OBVIOUS
  <2> QED
    BY <1>1, <2>1, <2>2
<1>3. \A i \in DOMAIN t : i \in DOMAIN s \/ i = Len(s) + 1
  BY <1>1
<1>4. \A i \in DOMAIN s : i \in DOMAIN t
  BY <1>1
<1>5. Len(s) + 1 \in DOMAIN t
  BY <1>1
<1> HIDE DEF t
<1>6. ToSet(t) \subseteq ToSet(s) \cup {name}
  BY <1>2, <1>3 DEF ToSet
<1>7. ToSet(s) \subseteq ToSet(t)
  BY <1>2, <1>4 DEF ToSet
<1>8. name \in ToSet(t)
  BY <1>2, <1>5 DEF ToSet
<1> QED
  BY <1>6, <1>7, <1>8 DEF t

\* What a step does to the record of failures.
LEMMA FailureStep ==
  ASSUME IfTypes, [Next]_ifVars
  PROVE  \/ failures' = failures
         \/ failures' = Append(failures, step) /\ Len(failures) < MaxFailures
BY DEF Next, ifVars, Ioctl, Start, Usage, GetDrvInfo, NoSlave, GetMasterSettings,
   GetSlaveSettings,
       NextSlave, LastSlave, SlaveDown, SlaveAddr, SlaveMtu, ChooseHwaddr, SlaveHwaddr, SlaveUp,
       MasterDown, MasterHwaddr, MasterUp, BondEnslave, UndoMasterMac, UndoSlaveMac, UndoMtu,
       BondRelease, ReleaseDown, ReleaseMtu, ChangeActive

LEMMA HappenedStep ==
  ASSUME IfTypes, StepsInv, [Next]_ifVars, NEW names
  PROVE  /\ Happened(names) => Happened(names)'
         /\ failures' # failures /\ step \in names => Happened(names)'
         /\ Happened(names)' => Happened(names) \/ (failures' # failures /\ step \in names)
<1>1. step \in Steps
  BY DEF StepsInv
<1>2. CASE failures' = failures
  BY <1>2 DEF Happened
<1>3. CASE failures' = Append(failures, step)
  <2>1. ToSet(failures') = ToSet(failures) \cup {step}
    BY <1>1, <1>3, Recorded DEF IfTypes
  <2>2. failures' # failures
    BY <1>1, <1>3 DEF IfTypes
  <2> QED
    BY <2>1, <2>2 DEF Happened
<1> QED
  BY <1>2, <1>3, FailureStep

LEMMA StepsInit == Init => StepsInv
BY DEF Init, StepsInv, Steps, Early, InHand, Enslaving, MtuSet, Undoing, Releasing

LEMMA StepsStep ==
  ASSUME IfTypes, StepsInv, [Next]_ifVars
  PROVE  StepsInv'
<1> USE DEF StepsInv, Steps, Early, InHand, Enslaving, MtuSet, Undoing, Releasing, Keeps, given, Fails, Ioctl
<1>1. CASE Start
  BY <1>1 DEF Start, IfTypes
<1>2. CASE Usage
  BY <1>2 DEF Usage, IfTypes
<1>3. CASE GetDrvInfo
  BY <1>3 DEF GetDrvInfo, IfTypes
<1>4. CASE NoSlave
  BY <1>4 DEF NoSlave, IfTypes
<1>5. CASE GetMasterSettings
  BY <1>5 DEF GetMasterSettings, IfTypes
<1>6. CASE GetSlaveSettings
  BY <1>6 DEF GetSlaveSettings, IfTypes
<1>7. CASE NextSlave
  BY <1>7 DEF NextSlave, IfTypes
<1>8. CASE LastSlave
  BY <1>8 DEF LastSlave, IfTypes
<1>9. CASE SlaveDown
  BY <1>9 DEF SlaveDown, IfTypes
<1>10. CASE SlaveAddr
  BY <1>10 DEF SlaveAddr, IfTypes
<1>11. CASE SlaveMtu
  BY <1>11 DEF SlaveMtu, IfTypes
<1>12. CASE ChooseHwaddr
  BY <1>12 DEF ChooseHwaddr, IfTypes
<1>13. CASE SlaveHwaddr
  BY <1>13 DEF SlaveHwaddr, IfTypes
<1>14. CASE SlaveUp
  BY <1>14 DEF SlaveUp, IfTypes
<1>15. CASE MasterDown
  BY <1>15 DEF MasterDown, IfTypes
<1>16. CASE MasterHwaddr
  BY <1>16 DEF MasterHwaddr, IfTypes, HasHwaddr
<1>17. CASE MasterUp
  BY <1>17 DEF MasterUp, IfTypes, HasHwaddr
<1>18. CASE BondEnslave
  BY <1>18 DEF BondEnslave, IfTypes, Rollback
<1>19. CASE UndoMasterMac
  BY <1>19 DEF UndoMasterMac, IfTypes
<1>20. CASE UndoSlaveMac
  BY <1>20 DEF UndoSlaveMac, IfTypes
<1>21. CASE UndoMtu
  BY <1>21 DEF UndoMtu, IfTypes
<1>22. CASE BondRelease
  BY <1>22 DEF BondRelease, IfTypes
<1>23. CASE ReleaseDown
  BY <1>23 DEF ReleaseDown, IfTypes
<1>24. CASE ReleaseMtu
  BY <1>24 DEF ReleaseMtu, IfTypes
<1>25. CASE ChangeActive
  BY <1>25 DEF ChangeActive, IfTypes
<1>26. CASE UNCHANGED ifVars
  BY <1>26 DEF ifVars
<1> QED
  BY <1>1, <1>2, <1>3, <1>4, <1>5, <1>6, <1>7, <1>8, <1>9, <1>10, <1>11, <1>12, <1>13, <1>14,
     <1>15, <1>16, <1>17, <1>18, <1>19, <1>20, <1>21, <1>22, <1>23, <1>24, <1>25, <1>26 DEF
     Next

--------------------------------------------------------------------------
(* What an ioctl leaves alone: other interfaces, and other fields. *)
Rest(f, i, n) ==
  /\ n \in Ifaces
  /\ \A k \in All :
       /\ k # i => n[k] = dev[k]
       /\ f # "slave" => n[k].slave = dev[k].slave
       /\ f # "up" => n[k].up = dev[k].up
       /\ f # "mtu" => n[k].mtu = dev[k].mtu
       /\ f # "hw" => n[k].hw = dev[k].hw

LEMMA SetAddrDoes ==
  ASSUME dev \in Ifaces, NEW i \in All, NEW v \in {NoHw, "ip"}
  PROVE  SetAddr(i, v)[i].addr = v /\ Rest("addr", i, SetAddr(i, v))
BY DEF Ifaces, Iface, All, Mtus, SetAddr, Rest

LEMMA SetMtuDoes ==
  ASSUME dev \in Ifaces, NEW i \in All, NEW v \in Mtus
  PROVE  SetMtu(i, v)[i].mtu = v /\ Rest("mtu", i, SetMtu(i, v))
BY DEF Ifaces, Iface, All, Mtus, SetMtu, Rest

LEMMA SetHwDoes ==
  ASSUME dev \in Ifaces, NEW i \in All, NEW v \in Hardware
  PROVE  SetHw(i, v)[i].hw = v /\ Rest("hw", i, SetHw(i, v))
BY DEF Ifaces, Iface, All, Mtus, SetHw, Rest

\* The flags, first for a value that is not known.
Flag(i, v) == [dev EXCEPT ![i].up = v]
Bound(i, v) == [dev EXCEPT ![i].slave = v]
Taken(i, v, h) == [dev EXCEPT ![i] = [@ EXCEPT !.slave = v, !.up = v, !.hw = h]]

LEMMA FlagDoes ==
  ASSUME dev \in Ifaces, NEW i \in All, NEW v \in BOOLEAN
  PROVE  Flag(i, v)[i].up = v /\ Rest("up", i, Flag(i, v))
BY DEF Ifaces, Iface, All, Mtus, Flag, Rest

LEMMA BoundDoes ==
  ASSUME dev \in Ifaces, NEW i \in All, NEW v \in BOOLEAN
  PROVE  Bound(i, v)[i].slave = v /\ Rest("slave", i, Bound(i, v))
BY DEF Ifaces, Iface, All, Mtus, Bound, Rest

LEMMA TakenDoes ==
  ASSUME dev \in Ifaces, NEW i \in All, NEW v \in BOOLEAN, NEW h \in Hardware
  PROVE  /\ Taken(i, v, h) \in Ifaces
         /\ Taken(i, v, h)[i].slave = v /\ Taken(i, v, h)[i].up = v
         /\ Taken(i, v, h)[i].mtu = dev[i].mtu
         /\ Taken(i, v, h)[i].hw = h
         /\ \A k \in All : k # i => Taken(i, v, h)[k] = dev[k]
<1> DEFINE q == [dev[i] EXCEPT !.slave = v]
           p == [q EXCEPT !.up = v]
           r == [dev[i] EXCEPT !.slave = v, !.up = v, !.hw = h]
           n == [dev EXCEPT ![i] = r]
<1>1. dev[i] \in Iface
  BY DEF Ifaces
<1>2. q \in Iface
  BY <1>1 DEF Iface
<1>3. p \in Iface
  <2> HIDE DEF q
  <2> QED
    BY <1>2 DEF Iface
<1>4. [p EXCEPT !.hw = h] \in Iface
  <2> HIDE DEF p
  <2> QED
    BY <1>3 DEF Iface
<1>5. r = [p EXCEPT !.hw = h]
  BY <1>1 DEF Iface
<1>6. r \in Iface
  BY <1>4, <1>5
<1>7. r.slave = v /\ r.up = v
  BY <1>1 DEF Iface
<1>8. r.mtu = dev[i].mtu /\ r.hw = h
  BY <1>1 DEF Iface
<1> HIDE DEF r
<1>9. n \in Ifaces /\ n[i] = r /\ \A k \in All : k # i => n[k] = dev[k]
  BY <1>6 DEF Ifaces
<1> QED
  BY <1>7, <1>8, <1>9 DEF r, Taken

LEMMA SetUpDoes ==
  ASSUME dev \in Ifaces, NEW i \in All
  PROVE  SetUp(i)[i].up /\ Rest("up", i, SetUp(i))
<1>1. SetUp(i) = Flag(i, TRUE)
  BY DEF SetUp, Flag
<1>2. Flag(i, TRUE)[i].up /\ Rest("up", i, Flag(i, TRUE))
  BY FlagDoes
<1> QED
  BY <1>1, <1>2

LEMMA SetDownDoes ==
  ASSUME dev \in Ifaces, NEW i \in All
  PROVE  ~ SetDown(i)[i].up /\ Rest("up", i, SetDown(i))
<1>1. SetDown(i) = Flag(i, FALSE)
  BY DEF SetDown, Flag
<1>2. ~ Flag(i, FALSE)[i].up /\ Rest("up", i, Flag(i, FALSE))
  BY FlagDoes
<1> QED
  BY <1>1, <1>2

LEMMA ReleaseDoes ==
  ASSUME dev \in Ifaces, NEW i \in All
  PROVE  ~ Release(i)[i].slave /\ Rest("slave", i, Release(i))
<1>1. Release(i) = Bound(i, FALSE)
  BY DEF Release, Bound
<1>2. ~ Bound(i, FALSE)[i].slave /\ Rest("slave", i, Bound(i, FALSE))
  BY BoundDoes
<1> QED
  BY <1>1, <1>2

LEMMA AttachDoes ==
  ASSUME dev \in Ifaces, NEW i \in All, NEW h \in Hardware
  PROVE  /\ Attach(i, h) \in Ifaces
         /\ Attach(i, h)[i].slave /\ Attach(i, h)[i].up
         /\ Attach(i, h)[i].mtu = dev[i].mtu
         /\ Attach(i, h)[i].hw = h
         /\ \A k \in All : k # i => Attach(i, h)[k] = dev[k]
<1>1. Attach(i, h) = Taken(i, TRUE, h)
  BY DEF Attach, Taken
<1>2. Taken(i, TRUE, h) \in Ifaces /\ Taken(i, TRUE, h)[i].mtu = dev[i].mtu /\ Taken(i, TRUE, h)[i].hw = h
  BY TakenDoes
<1>4. ASSUME NEW k \in All, k # i
      PROVE  Taken(i, TRUE, h)[k] = dev[k]
  BY <1>4 DEF Taken, Ifaces
<1>3. Taken(i, TRUE, h)[i].slave /\ Taken(i, TRUE, h)[i].up
  BY TakenDoes
<1> QED
  BY <1>1, <1>2, <1>3, <1>4

--------------------------------------------------------------------------
(* The types. *)
LEMMA TypesInit == BondInstance /\ Init => IfTypes
<1> SUFFICES ASSUME BondInstance, Init PROVE IfTypes
  OBVIOUS
<1>1. slaves \in Seq(Cards)
  BY DEF BondInstance, Init
<1>2. dev \in Ifaces
  <2>1. DevInit
    BY DEF Init
  <2>2. PICK m \in [master : BOOLEAN, ether : BOOLEAN, slave : BOOLEAN, up : BOOLEAN, mtu : {9000}, hw : {NoHw, "bond"}, addr : {"ip"}],
             attached \in SUBSET Cards :
          /\ ~ m.slave /\ (attached # {} => m.hw # NoHw)
          /\ dev = [i \in All |-> IF i = Master THEN m ELSE Card(i, attached, m)]
    BY <2>1 DEF DevInit, All
  <2>3. m \in Iface /\ m.mtu = 9000 /\ m.hw \in Hardware
    BY DEF Iface, Hardware, Mtus
  <2>4. ASSUME NEW i \in Cards
        PROVE  Card(i, attached, m) \in Iface
    BY <2>3 DEF Card, Iface, Hardware, Mtus
  <2>5. ASSUME NEW i \in All
        PROVE  (IF i = Master THEN m ELSE Card(i, attached, m)) \in Iface
    BY <2>3, <2>4 DEF All
  <2> QED
    BY <2>2, <2>5 DEF Ifaces
<1>3. dev[Master] \in Iface
  BY <1>2 DEF Ifaces, All
<1>4. failures = <<>> /\ failures \in Seq(Steps) /\ Len(failures) = 0
  BY DEF Init
<1>5. hwaddr_set \in BOOLEAN
  <2>1. hwaddr_set = FALSE
    BY Zenon DEF Init
  <2> QED
    BY <2>1
<1>6. before \in Ifaces /\ given_slaves \in Seq(Cards) /\ master_is \in Iface /\ slave_is \in Iface
  BY <1>1, <1>2, <1>3 DEF Init
<1>7. abi_ver \in Int
  BY Zenon DEF Init, BondInstance
<1>8. res = 0 /\ cmd \in {"enslave", "detach", "change", "usage"}
  BY Zenon DEF Init
<1>9. res \in 0 .. 2
  BY <1>8
<1>10. Len(failures) <= MaxFailures
  BY <1>4 DEF BondInstance
<1> QED
  BY Zenon, <1>1, <1>2, <1>4, <1>5, <1>6, <1>7, <1>8, <1>9, <1>10 DEF IfTypes

LEMMA TypesStep ==
  ASSUME BondInstance, IfTypes, StepsInv, [Next]_ifVars
  PROVE  IfTypes'
<1>1. failures' \in Seq(Steps) /\ Len(failures') <= MaxFailures
  BY FailureStep DEF IfTypes, StepsInv, BondInstance
<1>2. slaves # <<>> => Slave \in Cards /\ Tail(slaves) \in Seq(Cards)
  BY HeadTail DEF IfTypes, Slave
<1>3. step \in InHand => slaves # <<>>
  BY DEF StepsInv
<1>4. dev \in Ifaces /\ master_is \in Iface /\ slave_is \in Iface /\ Master \in All /\ dev[Master] \in Iface
  BY DEF IfTypes, Ifaces, All
<1>5. step \in InHand => Slave \in All /\ dev[Slave] \in Iface
  BY <1>2, <1>3, <1>4 DEF Ifaces, All
<1>6. \A r \in Iface : r.mtu \in Mtus /\ r.hw \in Hardware /\ r.addr \in {NoHw, "ip"}
  BY DEF Iface
<1>7. dev' \in Ifaces
  <2> USE DEF Ioctl, Rest, InHand, Enslaving, MtuSet, Undoing, Releasing
  <2>1. CASE SlaveDown
    BY <1>4, <1>5, <1>6, <2>1, SetDownDoes DEF SlaveDown
  <2>2. CASE SlaveAddr
    BY <1>4, <1>5, <1>6, <2>2, SetAddrDoes DEF SlaveAddr
  <2>3. CASE SlaveMtu
    BY <1>4, <1>5, <1>6, <2>3, SetMtuDoes DEF SlaveMtu
  <2>4. CASE SlaveHwaddr
    BY <1>4, <1>5, <1>6, <2>4, SetHwDoes DEF SlaveHwaddr
  <2>5. CASE SlaveUp
    BY <1>4, <1>5, <1>6, <2>5, SetUpDoes DEF SlaveUp
  <2>6. CASE MasterDown
    BY <1>4, <1>5, <1>6, <2>6, SetDownDoes DEF MasterDown
  <2>7. CASE MasterHwaddr
    BY <1>4, <1>5, <1>6, <2>7, SetHwDoes DEF MasterHwaddr
  <2>8. CASE MasterUp
    BY <1>4, <1>5, <1>6, <2>8, SetUpDoes DEF MasterUp
  <2>9. CASE BondEnslave
    BY <1>4, <1>5, <1>6, <2>9, AttachDoes DEF BondEnslave, Rollback, Iface, Hardware
  <2>10. CASE UndoMasterMac
    BY <1>4, <1>5, <1>6, <2>10, SetHwDoes DEF UndoMasterMac
  <2>11. CASE UndoSlaveMac
    BY <1>4, <1>5, <1>6, <2>11, SetHwDoes DEF UndoSlaveMac
  <2>12. CASE UndoMtu
    BY <1>4, <1>5, <1>6, <2>12, SetMtuDoes DEF UndoMtu
  <2>13. CASE BondRelease
    BY <1>4, <1>5, <1>6, <2>13, ReleaseDoes DEF BondRelease
  <2>14. CASE ReleaseDown
    BY <1>4, <1>5, <1>6, <2>14, SetDownDoes DEF ReleaseDown
  <2>15. CASE ReleaseMtu
    BY <1>4, <1>5, <1>6, <2>15, SetMtuDoes DEF ReleaseMtu, Mtus
  <2>16. CASE UNCHANGED dev
    BY <1>4, <2>16
  <2> QED
    BY <2>1, <2>2, <2>3, <2>4, <2>5, <2>6, <2>7, <2>8, <2>9, <2>10, <2>11, <2>12, <2>13,
       <2>14, <2>15, <2>16 DEF Next, ifVars, Start, Usage, GetDrvInfo, NoSlave,
       GetMasterSettings, GetSlaveSettings, NextSlave, LastSlave, ChooseHwaddr, ChangeActive,
       Ioctl
<1> USE DEF Next, ifVars, Ioctl, Keeps, given, Fails, HasHwaddr,
            Start, Usage, GetDrvInfo, NoSlave, GetMasterSettings, GetSlaveSettings, NextSlave,
            LastSlave, SlaveDown, SlaveAddr, SlaveMtu, ChooseHwaddr, SlaveHwaddr, SlaveUp,
            MasterDown, MasterHwaddr, MasterUp, BondEnslave, UndoMasterMac, UndoSlaveMac,
            UndoMtu, BondRelease, ReleaseDown, ReleaseMtu, ChangeActive
<1>8. slaves' \in Seq(Cards) /\ given_slaves' \in Seq(Cards) /\ before' \in Ifaces
  BY <1>2, <1>3 DEF IfTypes, InHand
<1>9. master_is' \in Iface /\ slave_is' \in Iface
  <2>1. master_is' = master_is \/ master_is' = dev[Master]
    BY Zenon DEF IfTypes
  <2>2. slave_is' = slave_is \/ (slaves # <<>> /\ slave_is' = dev[Slave])
    BY Zenon DEF IfTypes
  <2>3. slaves # <<>> => dev[Slave] \in Iface
    BY <1>2, <1>4 DEF Ifaces, All
  <2> QED
    BY <1>4, <2>1, <2>2, <2>3
<1>10. res' \in 0 .. 2
  <2>1. res' = res \/ res' = 0 \/ res' = 1 \/ res' = 2
    BY Zenon DEF IfTypes
  <2> QED
    BY <2>1 DEF IfTypes
<1>11. abi_ver' \in Int /\ cmd' \in {"enslave", "detach", "change", "usage"}
  BY Zenon DEF IfTypes
<1>12. hwaddr_set' \in BOOLEAN
  BY DEF IfTypes
<1> QED
  BY Zenon, <1>1, <1>7, <1>8, <1>9, <1>10, <1>11, <1>12 DEF IfTypes

--------------------------------------------------------------------------
(* The inductive invariant. *)
MtuLost == Happened({"undo_mtu"})
MasterLost == Happened({"master_hw", "master_up"})
Refused == Happened({"enslave"})

\* The slaves whose turn is not over.
ToGo == IF step \in Over THEN Tail(slaves) ELSE slaves

\* As long as nothing failed, a slave is served, or its turn is to come.
ServedInv ==
  /\ res = 0 /\ cmd \in {"enslave", "detach"} =>
       \A i \in ToSet(given_slaves) : i \in ToSet(ToGo) \/ (dev[i].slave <=> cmd = "enslave")
  /\ res = 0 /\ step = "end" /\ cmd # "change" => slaves = <<>>

\* A slave that is being attached is the only one with a mtu of neither kind.
MtuInv ==
  /\ master_is.mtu = dev[Master].mtu
  /\ step \in Enslaving => ~ dev[Slave].slave /\ (MtuLost \/ slave_is.mtu = before[Slave].mtu)
  /\ step \in {"down", "addr", "mtu"} => dev[Slave].mtu = slave_is.mtu
  /\ step \in MtuSet => dev[Slave].mtu = master_is.mtu
  /\ cmd = "enslave" =>
       \A i \in Cards :
         /\ dev[i].slave => dev[i].mtu = dev[Master].mtu
         /\ \/ dev[i].slave \/ MtuLost \/ dev[i].mtu = before[i].mtu
            \/ step \in MtuSet \cup Undoing /\ i = Slave

\* What could not be done is told.
ToldInv ==
  /\ step \in Early => ~ MasterLost /\ ~ Refused
  /\ MasterLost \/ Refused => res = 1

\* Slaves that are attached are up, and so is the master of a later driver.
StayUpInv ==
  /\ ~ (abi_ver < 1) => (dev[Master].up <=> before[Master].up)
  /\ cmd = "enslave" => \A i \in Cards : dev[i].slave => dev[i].up

\* The master was up when the work on the slaves began, and is down only
\* until it has its new address.
UpInv ==
  /\ step \in InHand \cup {"slave"} => before[Master].up
  /\ step \in {"slave_hw", "slave_up", "master_down", "master_up"} => abi_ver < 1
  /\ \/ step \in {"master_hw", "master_up"} /\ abi_ver < 1
     \/ MasterLost
     \/ dev[Master].up = before[Master].up

\* A master that has an address keeps it, and what is attached has it too.
HwInv ==
  before[Master].hw # NoHw /\ ~ Refused =>
    /\ step \notin {"master_down", "master_hw", "master_up", "undo_master_mac"}
    /\ dev[Master].hw = before[Master].hw /\ master_is.hw = before[Master].hw
    /\ step \in Enslaving \cup {"slave", "next"} /\ cmd = "enslave" => hwaddr_set
    /\ step = "slave_up" \/ (step = "enslave" /\ abi_ver < 1) => dev[Slave].hw = dev[Master].hw
    /\ \A i \in Attached : dev[i].hw = dev[Master].hw

\* A master without an address gets that of the first slave.
FreshInv ==
  before[Master].hw = NoHw /\ ~ Refused /\ ~ (abi_ver < 1) =>
    /\ step \notin {"undo_master_mac", "undo_slave_mac"}
    /\ step = "enslave" => hwaddr_set
    /\ step = "master_hw" => ~ hwaddr_set
    /\ ~ hwaddr_set \/ step \in Early => Attached = {}
    /\ OneAddress

\* The facts that every case of the steps needs.
Facts ==
  /\ dev \in Ifaces /\ master_is \in Iface /\ slave_is \in Iface
  /\ Master \in All /\ dev[Master] \in Iface
  /\ slaves # <<>> => Slave \in Cards /\ Slave \in All /\ Slave # Master /\ dev[Slave] \in Iface
  /\ \A i \in Cards : i \in All /\ i # Master
  /\ \A r \in Iface : r.mtu \in Mtus /\ r.hw \in Hardware /\ r.addr \in {NoHw, "ip"}
  /\ step \in InHand => slaves # <<>>
  /\ Append(failures, step) # failures

LEMMA FactsHold ==
  ASSUME BondInstance, IfTypes, StepsInv
  PROVE  Facts
<1>1. dev \in Ifaces /\ master_is \in Iface /\ slave_is \in Iface /\ Master \in All /\ dev[Master] \in Iface
  BY DEF IfTypes, Ifaces, All
<1>2. slaves # <<>> => Slave \in Cards
  BY HeadTail DEF IfTypes, Slave
<1>3. slaves # <<>> => Slave \in All /\ Slave # Master /\ dev[Slave] \in Iface
  BY <1>1, <1>2 DEF BondInstance, All, Ifaces
<1>4. \A i \in Cards : i \in All /\ i # Master
  BY DEF BondInstance, All
<1>5. \A r \in Iface : r.mtu \in Mtus /\ r.hw \in Hardware /\ r.addr \in {NoHw, "ip"}
  BY DEF Iface
<1>6. step \in InHand => slaves # <<>>
  BY DEF StepsInv
<1>7. Append(failures, step) # failures
  BY DEF IfTypes, StepsInv
<1> QED
  BY <1>1, <1>2, <1>3, <1>4, <1>5, <1>6, <1>7 DEF Facts

LEMMA LostStep ==
  ASSUME IfTypes, StepsInv, [Next]_ifVars
  PROVE  /\ MtuLost' <=> MtuLost \/ (failures' # failures /\ step = "undo_mtu")
         /\ MasterLost' <=> MasterLost \/ (failures' # failures /\ step \in {"master_hw", "master_up"})
         /\ Refused' <=> Refused \/ (failures' # failures /\ step = "enslave")
<1>1. \A names : /\ Happened(names) => Happened(names)'
                 /\ failures' # failures /\ step \in names => Happened(names)'
                 /\ Happened(names)' => Happened(names) \/ (failures' # failures /\ step \in names)
  BY HappenedStep
<1> QED
  BY <1>1 DEF MtuLost, MasterLost, Refused

LEMMA UpInit == BondInstance /\ Init => UpInv
<1> SUFFICES ASSUME BondInstance, Init PROVE UpInv
  OBVIOUS
<1>1. step = "start" /\ dev = before
  BY Zenon DEF Init
<1> QED
  BY <1>1 DEF UpInv, InHand, Enslaving, MtuSet, Undoing, Releasing

LEMMA UpStep ==
  ASSUME BondInstance, IfTypes, StepsInv, UpInv, [Next]_ifVars
  PROVE  UpInv'
<1>1. Facts
  BY FactsHold
<1>2. MasterLost' <=> MasterLost \/ (failures' # failures /\ step \in {"master_hw", "master_up"})
  BY LostStep
<1> USE DEF Ioctl, Rest, Keeps, given, Fails, Facts, StepsInv, UpInv, InHand, Enslaving,
            MtuSet, Undoing, Releasing, Over
<1>3. CASE Start
  BY <1>1, <1>2, <1>3 DEF Start, Early
<1>4. CASE Usage
  BY <1>1, <1>2, <1>4 DEF Usage, Early
<1>5. CASE GetDrvInfo
  BY <1>1, <1>2, <1>5 DEF GetDrvInfo, Early
<1>6. CASE NoSlave
  BY <1>1, <1>2, <1>6 DEF NoSlave, Early
<1>7. CASE GetMasterSettings
  BY <1>1, <1>2, <1>7 DEF GetMasterSettings, Early, Usable
<1>8. CASE GetSlaveSettings
  BY <1>1, <1>2, <1>8 DEF GetSlaveSettings, Early, IfTypes
<1>9. CASE NextSlave
  BY <1>1, <1>2, <1>9 DEF NextSlave, Early
<1>10. CASE LastSlave
  BY <1>1, <1>2, <1>10 DEF LastSlave, Early
<1>11. CASE SlaveDown
  BY <1>1, <1>2, <1>11, SetDownDoes DEF SlaveDown
<1>12. CASE SlaveAddr
  BY <1>1, <1>2, <1>12, SetAddrDoes DEF SlaveAddr
<1>13. CASE SlaveMtu
  BY <1>1, <1>2, <1>13, SetMtuDoes DEF SlaveMtu
<1>14. CASE ChooseHwaddr
  BY <1>1, <1>2, <1>14 DEF ChooseHwaddr, Early, IfTypes
<1>15. CASE SlaveHwaddr
  BY <1>1, <1>2, <1>15, SetHwDoes DEF SlaveHwaddr
<1>16. CASE SlaveUp
  BY <1>1, <1>2, <1>16, SetUpDoes DEF SlaveUp
<1>17. CASE MasterDown
  BY <1>1, <1>2, <1>17, SetDownDoes DEF MasterDown
<1>18. CASE MasterHwaddr
  BY <1>1, <1>2, <1>18, SetHwDoes DEF MasterHwaddr
<1>19. CASE MasterUp
  BY <1>1, <1>2, <1>19, SetUpDoes DEF MasterUp
<1>20. CASE BondEnslave
  BY <1>1, <1>2, <1>20, AttachDoes DEF BondEnslave, Rollback
<1>21. CASE UndoMasterMac
  BY <1>1, <1>2, <1>21, SetHwDoes DEF UndoMasterMac
<1>22. CASE UndoSlaveMac
  BY <1>1, <1>2, <1>22, SetHwDoes DEF UndoSlaveMac
<1>23. CASE UndoMtu
  BY <1>1, <1>2, <1>23, SetMtuDoes DEF UndoMtu
<1>24. CASE BondRelease
  BY <1>1, <1>2, <1>24, ReleaseDoes DEF BondRelease
<1>25. CASE ReleaseDown
  BY <1>1, <1>2, <1>25, SetDownDoes DEF ReleaseDown
<1>26. CASE ReleaseMtu
  BY <1>1, <1>2, <1>26, SetMtuDoes DEF ReleaseMtu, Mtus
<1>27. CASE ChangeActive
  BY <1>1, <1>2, <1>27 DEF ChangeActive, Early
<1>28. CASE UNCHANGED ifVars
  BY <1>1, <1>2, <1>28 DEF ifVars, Early
<1> QED
  BY <1>3, <1>4, <1>5, <1>6, <1>7, <1>8, <1>9, <1>10, <1>11, <1>12, <1>13, <1>14, <1>15,
     <1>16, <1>17, <1>18, <1>19, <1>20, <1>21, <1>22, <1>23, <1>24, <1>25, <1>26, <1>27,
     <1>28 DEF Next

LEMMA ToldInit == Init => ToldInv
BY DEF Init, ToldInv, MasterLost, Refused, Happened, ToSet

LEMMA StayUpInit == BondInstance /\ Init => StayUpInv
<1> SUFFICES ASSUME BondInstance, Init PROVE StayUpInv
  OBVIOUS
<1>1. step = "start" /\ dev = before
  BY Zenon DEF Init
<1>2. DevInit
  BY DEF Init
<1>3. \A i \in Cards : dev[i].up
  BY <1>2 DEF DevInit, Card, BondInstance
<1> QED
  BY <1>1, <1>3 DEF StayUpInv

LEMMA ToldStep ==
  ASSUME BondInstance, IfTypes, StepsInv, ToldInv, [Next]_ifVars
  PROVE  ToldInv'
<1>1. Facts
  BY FactsHold
<1>2. /\ MasterLost' <=> MasterLost \/ (failures' # failures /\ step \in {"master_hw", "master_up"})
      /\ Refused' <=> Refused \/ (failures' # failures /\ step = "enslave")
  BY LostStep
<1> USE DEF Ioctl, Rest, Keeps, given, Fails, Facts, StepsInv, ToldInv, InHand, Enslaving,
            MtuSet, Undoing, Releasing, Over, Early
<1>3. CASE Start
  BY <1>1, <1>2, <1>3 DEF Start, Early
<1>4. CASE Usage
  BY <1>1, <1>2, <1>4 DEF Usage, Early
<1>5. CASE GetDrvInfo
  BY <1>1, <1>2, <1>5 DEF GetDrvInfo, Early
<1>6. CASE NoSlave
  BY <1>1, <1>2, <1>6 DEF NoSlave, Early
<1>7. CASE GetMasterSettings
  BY <1>1, <1>2, <1>7 DEF GetMasterSettings, Early, Usable
<1>8. CASE GetSlaveSettings
  BY <1>1, <1>2, <1>8 DEF GetSlaveSettings, Early, IfTypes
<1>9. CASE NextSlave
  BY <1>1, <1>2, <1>9 DEF NextSlave, Early
<1>10. CASE LastSlave
  BY <1>1, <1>2, <1>10 DEF LastSlave, Early
<1>11. CASE SlaveDown
  BY <1>1, <1>2, <1>11 DEF SlaveDown
<1>12. CASE SlaveAddr
  BY <1>1, <1>2, <1>12 DEF SlaveAddr
<1>13. CASE SlaveMtu
  BY <1>1, <1>2, <1>13 DEF SlaveMtu
<1>14. CASE ChooseHwaddr
  BY <1>1, <1>2, <1>14 DEF ChooseHwaddr, Early, IfTypes
<1>15. CASE SlaveHwaddr
  BY <1>1, <1>2, <1>15 DEF SlaveHwaddr
<1>16. CASE SlaveUp
  BY <1>1, <1>2, <1>16 DEF SlaveUp
<1>17. CASE MasterDown
  BY <1>1, <1>2, <1>17 DEF MasterDown
<1>18. CASE MasterHwaddr
  BY <1>1, <1>2, <1>18 DEF MasterHwaddr
<1>19. CASE MasterUp
  BY <1>1, <1>2, <1>19 DEF MasterUp
<1>20. CASE BondEnslave
  BY <1>1, <1>2, <1>20 DEF BondEnslave, Rollback
<1>21. CASE UndoMasterMac
  BY <1>1, <1>2, <1>21 DEF UndoMasterMac
<1>22. CASE UndoSlaveMac
  BY <1>1, <1>2, <1>22 DEF UndoSlaveMac
<1>23. CASE UndoMtu
  BY <1>1, <1>2, <1>23 DEF UndoMtu
<1>24. CASE BondRelease
  BY <1>1, <1>2, <1>24 DEF BondRelease
<1>25. CASE ReleaseDown
  BY <1>1, <1>2, <1>25 DEF ReleaseDown
<1>26. CASE ReleaseMtu
  BY <1>1, <1>2, <1>26 DEF ReleaseMtu, Mtus
<1>27. CASE ChangeActive
  BY <1>1, <1>2, <1>27 DEF ChangeActive, Early
<1>28. CASE UNCHANGED ifVars
  BY <1>1, <1>2, <1>28 DEF ifVars, Early
<1> QED
  BY <1>3, <1>4, <1>5, <1>6, <1>7, <1>8, <1>9, <1>10, <1>11, <1>12, <1>13, <1>14, <1>15,
     <1>16, <1>17, <1>18, <1>19, <1>20, <1>21, <1>22, <1>23, <1>24, <1>25, <1>26, <1>27,
     <1>28 DEF Next

LEMMA StayUpStep ==
  ASSUME BondInstance, IfTypes, StepsInv, MtuInv, UpInv, StayUpInv, [Next]_ifVars
  PROVE  StayUpInv'
<1>1. Facts
  BY FactsHold
<1>2. /\ step \in Enslaving => ~ dev[Slave].slave
      /\ step \in {"slave_hw", "slave_up", "master_down", "master_up"} => abi_ver < 1
  BY DEF MtuInv, UpInv
<1> USE DEF Ioctl, Rest, Keeps, given, Fails, Facts, StepsInv, StayUpInv, InHand, Enslaving,
            MtuSet, Undoing, Releasing, Over
<1>3. CASE Start
  BY <1>1, <1>2, <1>3 DEF Start, Early
<1>4. CASE Usage
  BY <1>1, <1>2, <1>4 DEF Usage, Early
<1>5. CASE GetDrvInfo
  BY <1>1, <1>2, <1>5 DEF GetDrvInfo, Early
<1>6. CASE NoSlave
  BY <1>1, <1>2, <1>6 DEF NoSlave, Early
<1>7. CASE GetMasterSettings
  BY <1>1, <1>2, <1>7 DEF GetMasterSettings, Early, Usable
<1>8. CASE GetSlaveSettings
  BY <1>1, <1>2, <1>8 DEF GetSlaveSettings, Early, IfTypes
<1>9. CASE NextSlave
  BY <1>1, <1>2, <1>9 DEF NextSlave, Early
<1>10. CASE LastSlave
  BY <1>1, <1>2, <1>10 DEF LastSlave, Early
<1>11. CASE SlaveDown
  BY <1>1, <1>2, <1>11, SetDownDoes DEF SlaveDown
<1>12. CASE SlaveAddr
  BY <1>1, <1>2, <1>12, SetAddrDoes DEF SlaveAddr
<1>13. CASE SlaveMtu
  BY <1>1, <1>2, <1>13, SetMtuDoes DEF SlaveMtu
<1>14. CASE ChooseHwaddr
  BY <1>1, <1>2, <1>14 DEF ChooseHwaddr, Early, IfTypes
<1>15. CASE SlaveHwaddr
  BY <1>1, <1>2, <1>15, SetHwDoes DEF SlaveHwaddr
<1>16. CASE SlaveUp
  BY <1>1, <1>2, <1>16, SetUpDoes DEF SlaveUp
<1>17. CASE MasterDown
  BY <1>1, <1>2, <1>17, SetDownDoes DEF MasterDown
<1>18. CASE MasterHwaddr
  BY <1>1, <1>2, <1>18, SetHwDoes DEF MasterHwaddr
<1>19. CASE MasterUp
  BY <1>1, <1>2, <1>19, SetUpDoes DEF MasterUp
<1>20. CASE BondEnslave
  BY <1>1, <1>2, <1>20, AttachDoes DEF BondEnslave, Rollback
<1>21. CASE UndoMasterMac
  BY <1>1, <1>2, <1>21, SetHwDoes DEF UndoMasterMac
<1>22. CASE UndoSlaveMac
  BY <1>1, <1>2, <1>22, SetHwDoes DEF UndoSlaveMac
<1>23. CASE UndoMtu
  BY <1>1, <1>2, <1>23, SetMtuDoes DEF UndoMtu
<1>24. CASE BondRelease
  BY <1>1, <1>2, <1>24, ReleaseDoes DEF BondRelease
<1>25. CASE ReleaseDown
  BY <1>1, <1>2, <1>25, SetDownDoes DEF ReleaseDown
<1>26. CASE ReleaseMtu
  BY <1>1, <1>2, <1>26, SetMtuDoes DEF ReleaseMtu, Mtus
<1>27. CASE ChangeActive
  BY <1>1, <1>2, <1>27 DEF ChangeActive, Early
<1>28. CASE UNCHANGED ifVars
  BY <1>1, <1>2, <1>28 DEF ifVars, Early
<1> QED
  BY <1>3, <1>4, <1>5, <1>6, <1>7, <1>8, <1>9, <1>10, <1>11, <1>12, <1>13, <1>14, <1>15,
     <1>16, <1>17, <1>18, <1>19, <1>20, <1>21, <1>22, <1>23, <1>24, <1>25, <1>26, <1>27,
     <1>28 DEF Next

LEMMA MtuInit == BondInstance /\ Init => MtuInv
<1> SUFFICES ASSUME BondInstance, Init PROVE MtuInv
  OBVIOUS
<1>1. step = "start" /\ dev = before /\ master_is = dev[Master] /\ dev \in Ifaces
  BY TypesInit DEF Init, IfTypes
<1>2. DevInit
  BY DEF Init
<1>3. \A i \in Cards : dev[i].slave => dev[i].mtu = dev[Master].mtu
  BY <1>2 DEF DevInit, Card, BondInstance
<1> QED
  BY <1>1, <1>3 DEF MtuInv, Enslaving, MtuSet, Undoing

LEMMA MtuStep ==
  ASSUME BondInstance, IfTypes, StepsInv, MtuInv, [Next]_ifVars
  PROVE  MtuInv'
<1>1. Facts
  BY FactsHold
<1>2. MtuLost' <=> MtuLost \/ (failures' # failures /\ step = "undo_mtu")
  BY LostStep
<1>3. slaves' = slaves => Slave' = Slave
  BY DEF Slave
<1> USE DEF Ioctl, Rest, Keeps, given, Fails, Facts, StepsInv, MtuInv, InHand, Enslaving,
            MtuSet, Undoing, Releasing, Over, IfTypes
<1>4. CASE Start
  BY <1>1, <1>2, <1>3, <1>4 DEF Start, Early
<1>5. CASE Usage
  BY <1>1, <1>2, <1>3, <1>5 DEF Usage, Early
<1>6. CASE GetDrvInfo
  BY <1>1, <1>2, <1>3, <1>6 DEF GetDrvInfo, Early
<1>7. CASE NoSlave
  BY <1>1, <1>2, <1>3, <1>7 DEF NoSlave, Early
<1>8. CASE GetMasterSettings
  BY <1>1, <1>2, <1>3, <1>8 DEF GetMasterSettings, Early
<1>9. CASE GetSlaveSettings
  BY <1>1, <1>2, <1>3, <1>9 DEF GetSlaveSettings, Early
<1>10. CASE NextSlave
  BY <1>1, <1>2, <1>3, <1>10 DEF NextSlave, Early
<1>11. CASE LastSlave
  BY <1>1, <1>2, <1>3, <1>11 DEF LastSlave, Early
<1>12. CASE SlaveDown
  BY <1>1, <1>2, <1>3, <1>12, SetDownDoes DEF SlaveDown
<1>13. CASE SlaveAddr
  BY <1>1, <1>2, <1>3, <1>13, SetAddrDoes DEF SlaveAddr
<1>14. CASE SlaveMtu
  BY <1>1, <1>2, <1>3, <1>14, SetMtuDoes DEF SlaveMtu
<1>15. CASE ChooseHwaddr
  BY <1>1, <1>2, <1>3, <1>15 DEF ChooseHwaddr, Early
<1>16. CASE SlaveHwaddr
  BY <1>1, <1>2, <1>3, <1>16, SetHwDoes DEF SlaveHwaddr
<1>17. CASE SlaveUp
  BY <1>1, <1>2, <1>3, <1>17, SetUpDoes DEF SlaveUp
<1>18. CASE MasterDown
  BY <1>1, <1>2, <1>3, <1>18, SetDownDoes DEF MasterDown
<1>19. CASE MasterHwaddr
  BY <1>1, <1>2, <1>3, <1>19, SetHwDoes DEF MasterHwaddr, HasHwaddr
<1>20. CASE MasterUp
  BY <1>1, <1>2, <1>3, <1>20, SetUpDoes DEF MasterUp, HasHwaddr
<1>21. CASE BondEnslave
  BY <1>1, <1>2, <1>3, <1>21, AttachDoes DEF BondEnslave, Rollback
<1>22. CASE UndoMasterMac
  BY <1>1, <1>2, <1>3, <1>22, SetHwDoes DEF UndoMasterMac
<1>23. CASE UndoSlaveMac
  BY <1>1, <1>2, <1>3, <1>23, SetHwDoes DEF UndoSlaveMac
<1>24. CASE UndoMtu
  BY <1>1, <1>2, <1>3, <1>24, SetMtuDoes DEF UndoMtu
<1>25. CASE BondRelease
  BY <1>1, <1>2, <1>3, <1>25, ReleaseDoes DEF BondRelease
<1>26. CASE ReleaseDown
  BY <1>1, <1>2, <1>3, <1>26, SetDownDoes DEF ReleaseDown
<1>27. CASE ReleaseMtu
  BY <1>1, <1>2, <1>3, <1>27, SetMtuDoes DEF ReleaseMtu, Mtus
<1>28. CASE ChangeActive
  BY <1>1, <1>2, <1>3, <1>28 DEF ChangeActive, Early
<1>29. CASE UNCHANGED ifVars
  BY <1>1, <1>2, <1>3, <1>29 DEF ifVars, Early
<1> QED
  BY <1>4, <1>5, <1>6, <1>7, <1>8, <1>9, <1>10, <1>11, <1>12, <1>13, <1>14, <1>15, <1>16,
     <1>17, <1>18, <1>19, <1>20, <1>21, <1>22, <1>23, <1>24, <1>25, <1>26, <1>27, <1>28,
     <1>29 DEF Next

LEMMA HwInit == BondInstance /\ Init => HwInv
<1> SUFFICES ASSUME BondInstance, Init PROVE HwInv
  OBVIOUS
<1>1. step = "start" /\ dev = before /\ master_is = dev[Master] /\ dev \in Ifaces
  BY TypesInit DEF Init, IfTypes
<1>2. DevInit
  BY DEF Init
<1>3. \A i \in Cards : dev[i].slave => dev[i].hw = dev[Master].hw
  BY <1>2 DEF DevInit, Card, BondInstance
<1> QED
  BY <1>1, <1>3 DEF HwInv, Enslaving, MtuSet, Undoing, Attached

\* What such a step leaves as it was.
InHandStays == UNCHANGED <<slaves, before, master_is, hwaddr_set, cmd>>

\* A step that changes no address and attaches no slave, and neither sets
\* nor takes back an address next, or sets the one of the slave.
LEMMA AddressesStay ==
  ASSUME Facts, HwInv, Refused => Refused',
         \A k \in All : dev'[k].hw = dev[k].hw /\ (dev'[k].slave => dev[k].slave),
         InHandStays, step \in InHand,
         step' \in InHand \ {"slave_up", "master_down", "master_hw", "master_up", "undo_master_mac"},
         step' \in Enslaving \cup {"next"} /\ cmd = "enslave" => step \in Enslaving,
         step' = "enslave" => step = "slave_up"
  PROVE  HwInv'
<1>1. Slave' = Slave
  BY DEF Slave, InHandStays
<1> QED
  BY <1>1 DEF InHandStays, HwInv, Attached, Facts, InHand, Enslaving, MtuSet, Undoing,
     Releasing, NoHw

LEMMA HwStep ==
  ASSUME BondInstance, IfTypes, StepsInv, MtuInv, HwInv, [Next]_ifVars
  PROVE  HwInv'
<1>1. Facts
  BY FactsHold
<1>2. Refused' <=> Refused \/ (failures' # failures /\ step = "enslave")
  BY LostStep
<1>3. slaves' = slaves => Slave' = Slave
  BY DEF Slave
<1> USE DEF Ioctl, Rest, Keeps, given, Fails, Facts, StepsInv, HwInv, InHand, Enslaving,
            MtuSet, Undoing, Releasing, Over, IfTypes, Attached, NoHw
<1>4. CASE Start
  BY <1>1, <1>2, <1>3, <1>4 DEF Start, Early
<1>5. CASE Usage
  BY <1>1, <1>2, <1>3, <1>5 DEF Usage, Early
<1>6. CASE GetDrvInfo
  BY <1>1, <1>2, <1>3, <1>6 DEF GetDrvInfo, Early
<1>7. CASE NoSlave
  BY <1>1, <1>2, <1>3, <1>7 DEF NoSlave, Early
<1>8. CASE GetMasterSettings
  BY <1>1, <1>2, <1>3, <1>8 DEF GetMasterSettings, Early
<1>9. CASE GetSlaveSettings
  BY <1>1, <1>2, <1>3, <1>9 DEF GetSlaveSettings, Early
<1>10. CASE NextSlave
  BY <1>1, <1>2, <1>3, <1>10 DEF NextSlave, Early
<1>11. CASE LastSlave
  BY <1>1, <1>2, <1>3, <1>11 DEF LastSlave, Early
<1>12. CASE SlaveDown
  <2>1. \A k \in All : dev'[k].hw = dev[k].hw /\ (dev'[k].slave => dev[k].slave)
    BY <1>1, <1>12, SetDownDoes DEF SlaveDown
  <2>2. InHandStays
    BY <1>12 DEF SlaveDown, InHandStays
  <2>3. step = "down" /\ step' \in {"addr", "next"}
    BY <1>12 DEF SlaveDown
  <2> QED
    BY <1>1, <1>2, <2>1, <2>2, <2>3, AddressesStay
<1>13. CASE SlaveAddr
  <2>1. \A k \in All : dev'[k].hw = dev[k].hw /\ (dev'[k].slave => dev[k].slave)
    BY <1>1, <1>13, SetAddrDoes DEF SlaveAddr
  <2>2. InHandStays
    BY <1>13 DEF SlaveAddr, InHandStays
  <2>3. step = "addr" /\ step' \in {"mtu", "hwaddr", "next"}
    BY <1>13 DEF SlaveAddr
  <2> QED
    BY <1>1, <1>2, <2>1, <2>2, <2>3, AddressesStay
<1>14. CASE SlaveMtu
  <2>1. \A k \in All : dev'[k].hw = dev[k].hw /\ (dev'[k].slave => dev[k].slave)
    BY <1>1, <1>14, SetMtuDoes DEF SlaveMtu
  <2>2. InHandStays
    BY <1>14 DEF SlaveMtu, InHandStays
  <2>3. step = "mtu" /\ step' \in {"hwaddr", "next"}
    BY <1>14 DEF SlaveMtu
  <2> QED
    BY <1>1, <1>2, <2>1, <2>2, <2>3, AddressesStay
<1>15. CASE ChooseHwaddr
  BY <1>1, <1>2, <1>3, <1>15 DEF ChooseHwaddr, Early
<1>16. CASE SlaveHwaddr
  <2>1. \A k \in All : (k # Slave => dev'[k].hw = dev[k].hw) /\ (dev'[k].slave => dev[k].slave)
    BY <1>1, <1>16, SetHwDoes DEF SlaveHwaddr
  <2>2. InHandStays
    BY <1>16 DEF SlaveHwaddr, InHandStays
  <2>3. step = "slave_hw" /\ ((step' = "slave_up" /\ dev'[Slave].hw = master_is.hw) \/ step' = "undo_mtu")
    BY <1>1, <1>16, SetHwDoes DEF SlaveHwaddr
  <2>4. ~ dev[Slave].slave
    BY <2>3 DEF MtuInv
  <2> QED
    BY <1>1, <1>2, <1>3, <2>1, <2>2, <2>3, <2>4 DEF InHandStays
<1>17. CASE SlaveUp
  <2>1. \A k \in All : dev'[k].hw = dev[k].hw /\ (dev'[k].slave => dev[k].slave)
    BY <1>1, <1>17, SetUpDoes DEF SlaveUp
  <2>2. InHandStays
    BY <1>17 DEF SlaveUp, InHandStays
  <2>3. step = "slave_up" /\ step' \in {"enslave", "undo_slave_mac"}
    BY <1>17 DEF SlaveUp
  <2> QED
    BY <1>1, <1>2, <2>1, <2>2, <2>3, AddressesStay
<1>18. CASE MasterDown
  BY <1>1, <1>2, <1>3, <1>18, SetDownDoes DEF MasterDown
<1>19. CASE MasterHwaddr
  BY <1>1, <1>2, <1>3, <1>19, SetHwDoes DEF MasterHwaddr, HasHwaddr
<1>20. CASE MasterUp
  BY <1>1, <1>2, <1>3, <1>20, SetUpDoes DEF MasterUp, HasHwaddr
<1>21. CASE BondEnslave
  <2>1. step = "enslave" /\ InHandStays /\ abi_ver' = abi_ver
    BY <1>21 DEF BondEnslave, InHandStays
  <2>2. \/ /\ step' = "next"
           /\ \A k \in All : k # Slave => dev'[k] = dev[k]
           /\ dev'[Slave].hw = IF abi_ver < 1 THEN dev[Slave].hw ELSE dev[Master].hw
        \/ failures' # failures
    BY <1>1, <1>21, AttachDoes DEF BondEnslave
  <2>3. CASE failures' # failures
    BY <1>2, <2>1, <2>3
  <2> QED
    BY <1>1, <1>2, <1>3, <2>1, <2>2, <2>3 DEF InHandStays
<1>22. CASE UndoMasterMac
  BY <1>1, <1>2, <1>3, <1>22, SetHwDoes DEF UndoMasterMac
<1>23. CASE UndoSlaveMac
  <2>1. \A k \in All : (k # Slave => dev'[k].hw = dev[k].hw) /\ (dev'[k].slave => dev[k].slave)
    BY <1>1, <1>23, SetHwDoes DEF UndoSlaveMac
  <2>2. InHandStays
    BY <1>23 DEF UndoSlaveMac, InHandStays
  <2>3. step = "undo_slave_mac" /\ (step' = "undo_mtu")
    BY <1>1, <1>23, SetHwDoes DEF UndoSlaveMac
  <2>4. ~ dev[Slave].slave
    BY <2>3 DEF MtuInv
  <2> QED
    BY <1>1, <1>2, <1>3, <2>1, <2>2, <2>3, <2>4 DEF InHandStays
<1>24. CASE UndoMtu
  <2>1. \A k \in All : dev'[k].hw = dev[k].hw /\ (dev'[k].slave => dev[k].slave)
    BY <1>1, <1>24, SetMtuDoes DEF UndoMtu
  <2>2. InHandStays
    BY <1>24 DEF UndoMtu, InHandStays
  <2>3. step = "undo_mtu" /\ step' \in {"next"}
    BY <1>24 DEF UndoMtu
  <2> QED
    BY <1>1, <1>2, <2>1, <2>2, <2>3, AddressesStay
<1>25. CASE BondRelease
  <2>1. \A k \in All : dev'[k].hw = dev[k].hw /\ (dev'[k].slave => dev[k].slave)
    BY <1>1, <1>25, ReleaseDoes DEF BondRelease
  <2>2. InHandStays
    BY <1>25 DEF BondRelease, InHandStays
  <2>3. step = "detach" /\ step' \in {"release_down", "release_mtu", "next"}
    BY <1>25 DEF BondRelease
  <2> QED
    BY <1>1, <1>2, <2>1, <2>2, <2>3, AddressesStay
<1>26. CASE ReleaseDown
  <2>1. \A k \in All : dev'[k].hw = dev[k].hw /\ (dev'[k].slave => dev[k].slave)
    BY <1>1, <1>26, SetDownDoes DEF ReleaseDown
  <2>2. InHandStays
    BY <1>26 DEF ReleaseDown, InHandStays
  <2>3. step = "release_down" /\ step' \in {"release_mtu"}
    BY <1>26 DEF ReleaseDown
  <2> QED
    BY <1>1, <1>2, <2>1, <2>2, <2>3, AddressesStay
<1>27. CASE ReleaseMtu
  <2>1. \A k \in All : dev'[k].hw = dev[k].hw /\ (dev'[k].slave => dev[k].slave)
    BY <1>1, <1>27, SetMtuDoes DEF ReleaseMtu, Mtus
  <2>2. InHandStays
    BY <1>27 DEF ReleaseMtu, InHandStays
  <2>3. step = "release_mtu" /\ step' \in {"next"}
    BY <1>27 DEF ReleaseMtu
  <2> QED
    BY <1>1, <1>2, <2>1, <2>2, <2>3, AddressesStay
<1>28. CASE ChangeActive
  BY <1>1, <1>2, <1>3, <1>28 DEF ChangeActive, Early
<1>29. CASE UNCHANGED ifVars
  BY <1>1, <1>2, <1>3, <1>29 DEF ifVars, Early
<1> QED
  BY <1>4, <1>5, <1>6, <1>7, <1>8, <1>9, <1>10, <1>11, <1>12, <1>13, <1>14, <1>15, <1>16,
     <1>17, <1>18, <1>19, <1>20, <1>21, <1>22, <1>23, <1>24, <1>25, <1>26, <1>27, <1>28,
     <1>29 DEF Next

LEMMA FreshInit == BondInstance /\ Init => FreshInv
<1> SUFFICES ASSUME BondInstance, Init, before[Master].hw = NoHw PROVE FreshInv
  BY DEF FreshInv
<1>1. step = "start" /\ dev = before
  BY Zenon DEF Init
<1>2. DevInit
  BY DEF Init
<1>3. Attached = {}
  BY <1>1, <1>2 DEF DevInit, Card, BondInstance, Attached
<1> QED
  BY <1>1, <1>3 DEF FreshInv, OneAddress

LEMMA FreshStep ==
  ASSUME BondInstance, IfTypes, StepsInv, MtuInv, UpInv, FreshInv, [Next]_ifVars
  PROVE  FreshInv'
<1>1. Facts
  BY FactsHold
<1>2. /\ step \in Enslaving => ~ dev[Slave].slave
      /\ step \in {"slave_hw", "slave_up", "master_down", "master_up"} => abi_ver < 1
      /\ Refused' <=> Refused \/ (failures' # failures /\ step = "enslave")
  BY LostStep DEF MtuInv, UpInv
<1> USE DEF Ioctl, Rest, Keeps, given, Fails, Facts, StepsInv, FreshInv, InHand, Enslaving,
            MtuSet, Undoing, Releasing, Over, Attached, OneAddress, Early
<1>3. CASE Start
  BY <1>1, <1>2, <1>3 DEF Start, Early
<1>4. CASE Usage
  BY <1>1, <1>2, <1>4 DEF Usage, Early
<1>5. CASE GetDrvInfo
  BY <1>1, <1>2, <1>5 DEF GetDrvInfo, Early
<1>6. CASE NoSlave
  BY <1>1, <1>2, <1>6 DEF NoSlave, Early
<1>7. CASE GetMasterSettings
  <2> SUFFICES ASSUME before[Master].hw = NoHw, ~ Refused, ~ (abi_ver < 1) PROVE FreshInv'
    BY <1>2, <1>7, Zenon DEF GetMasterSettings
  <2>1. dev' = dev /\ Attached = {} /\ before' = before
    BY <1>7 DEF GetMasterSettings, Early
  <2>2. step' \in {"slave", "end"}
    BY <1>7 DEF GetMasterSettings
  <2> QED
    BY <2>1, <2>2 DEF Early
<1>8. CASE GetSlaveSettings
  BY <1>1, <1>2, <1>8 DEF GetSlaveSettings, Early, IfTypes
<1>9. CASE NextSlave
  BY <1>1, <1>2, <1>9 DEF NextSlave, Early
<1>10. CASE LastSlave
  BY <1>1, <1>2, <1>10 DEF LastSlave, Early
<1>11. CASE SlaveDown
  BY <1>1, <1>2, <1>11, SetDownDoes DEF SlaveDown
<1>12. CASE SlaveAddr
  BY <1>1, <1>2, <1>12, SetAddrDoes DEF SlaveAddr
<1>13. CASE SlaveMtu
  BY <1>1, <1>2, <1>13, SetMtuDoes DEF SlaveMtu
<1>14. CASE ChooseHwaddr
  BY <1>1, <1>2, <1>14 DEF ChooseHwaddr, Early, IfTypes
<1>15. CASE SlaveHwaddr
  BY <1>1, <1>2, <1>15, SetHwDoes DEF SlaveHwaddr
<1>16. CASE SlaveUp
  BY <1>1, <1>2, <1>16, SetUpDoes DEF SlaveUp
<1>17. CASE MasterDown
  BY <1>1, <1>2, <1>17, SetDownDoes DEF MasterDown
<1>18. CASE MasterHwaddr
  BY <1>1, <1>2, <1>18, SetHwDoes DEF MasterHwaddr, HasHwaddr
<1>19. CASE MasterUp
  BY <1>1, <1>2, <1>19, SetUpDoes DEF MasterUp, HasHwaddr
<1>20. CASE BondEnslave
  BY <1>1, <1>2, <1>20, AttachDoes DEF BondEnslave, Rollback
<1>21. CASE UndoMasterMac
  BY <1>1, <1>2, <1>21, SetHwDoes DEF UndoMasterMac
<1>22. CASE UndoSlaveMac
  BY <1>1, <1>2, <1>22, SetHwDoes DEF UndoSlaveMac
<1>23. CASE UndoMtu
  BY <1>1, <1>2, <1>23, SetMtuDoes DEF UndoMtu
<1>24. CASE BondRelease
  BY <1>1, <1>2, <1>24, ReleaseDoes DEF BondRelease
<1>25. CASE ReleaseDown
  BY <1>1, <1>2, <1>25, SetDownDoes DEF ReleaseDown
<1>26. CASE ReleaseMtu
  BY <1>1, <1>2, <1>26, SetMtuDoes DEF ReleaseMtu, Mtus
<1>27. CASE ChangeActive
  BY <1>1, <1>2, <1>27 DEF ChangeActive, Early
<1>28. CASE UNCHANGED ifVars
  BY <1>1, <1>2, <1>28 DEF ifVars, Early
<1> QED
  BY <1>3, <1>4, <1>5, <1>6, <1>7, <1>8, <1>9, <1>10, <1>11, <1>12, <1>13, <1>14, <1>15,
     <1>16, <1>17, <1>18, <1>19, <1>20, <1>21, <1>22, <1>23, <1>24, <1>25, <1>26, <1>27,
     <1>28 DEF Next

LEMMA ServedInit == Init => ServedInv
<1> SUFFICES ASSUME Init PROVE ServedInv
  OBVIOUS
<1>1. step = "start" /\ slaves = given_slaves
  BY Zenon DEF Init
<1> QED
  BY <1>1 DEF ServedInv, ToGo, Over

LEMMA ToGoFacts ==
  ASSUME IfTypes
  PROVE  /\ slaves # <<>> => ToSet(slaves) = {Slave} \cup ToSet(Tail(slaves))
         /\ slaves = <<>> => ToSet(slaves) = {}
         /\ \A i \in ToSet(given_slaves) : i \in Cards
<1>1. slaves # <<>> => ToSet(slaves) = {Slave} \cup ToSet(Tail(slaves))
  BY HeadTail DEF IfTypes, Slave
<1>2. slaves = <<>> => ToSet(slaves) = {}
  BY DEF ToSet
<1> QED
  BY <1>1, <1>2, InRange DEF IfTypes

\* A step that attaches and detaches nothing, and ends no slave's turn.
LEMMA TurnStays ==
  ASSUME Facts, ServedInv, res' = 0 => res = 0,
         res' = 0 => \A k \in All : dev'[k].slave = dev[k].slave,
         slaves' = slaves, given_slaves' = given_slaves, cmd' = cmd,
         \A i \in ToSet(given_slaves) : i \in Cards,
         res' = 0 => step' # "end" /\ (step' \in Over <=>
                                       step \in Over)
  PROVE  ServedInv'
<1>1. res' = 0 => ToGo' = ToGo
  BY DEF ToGo
<1> QED
  BY <1>1 DEF ServedInv, Facts

LEMMA ServedStep ==
  ASSUME BondInstance, IfTypes, StepsInv, ServedInv, [Next]_ifVars
  PROVE  ServedInv'
<1>1. Facts
  BY FactsHold
<1>2. /\ slaves # <<>> => ToSet(slaves) = {Slave} \cup ToSet(Tail(slaves))
      /\ slaves = <<>> => ToSet(slaves) = {}
      /\ \A i \in ToSet(given_slaves) : i \in Cards
  BY ToGoFacts
<1> USE DEF Ioctl, Rest, Keeps, given, Fails, Facts, StepsInv, ServedInv, InHand,
            Enslaving, MtuSet, Undoing, Releasing, Over
<1>3. CASE Start
  BY <1>1, <1>2, <1>3 DEF Start, ToGo, Early, IfTypes
<1>4. CASE Usage
  BY <1>1, <1>2, <1>4 DEF Usage, ToGo, Early, IfTypes
<1>5. CASE GetDrvInfo
  BY <1>1, <1>2, <1>5 DEF GetDrvInfo, ToGo, Early, IfTypes
<1>6. CASE NoSlave
  BY <1>1, <1>2, <1>6 DEF NoSlave, ToGo, Early, IfTypes
<1>7. CASE GetMasterSettings
  BY <1>1, <1>2, <1>7 DEF GetMasterSettings, ToGo, Early, IfTypes
<1>8. CASE GetSlaveSettings
  <2>1. slaves' = slaves /\ given_slaves' = given_slaves /\ cmd' = cmd
    BY <1>8 DEF GetSlaveSettings
  <2>2. \A k \in All : dev'[k].slave = dev[k].slave
    BY <1>1, <1>8 DEF GetSlaveSettings
  <2>3. res' = 0 => /\ res = 0 /\ step' # "end"
                    /\ step' \in Over <=> step \in Over
    BY <1>1, <1>8 DEF GetSlaveSettings, IfTypes
  <2> QED
    BY <1>1, <1>2, <2>1, <2>2, <2>3, TurnStays
<1>9. CASE NextSlave
  BY <1>1, <1>2, <1>9 DEF NextSlave, ToGo, Early, IfTypes
<1>10. CASE LastSlave
  BY <1>1, <1>2, <1>10 DEF LastSlave, ToGo, Early, IfTypes
<1>11. CASE SlaveDown
  <2>1. slaves' = slaves /\ given_slaves' = given_slaves /\ cmd' = cmd
    BY <1>11 DEF SlaveDown
  <2>2. \A k \in All : dev'[k].slave = dev[k].slave
    BY <1>1, <1>11, SetDownDoes DEF SlaveDown
  <2>3. res' = 0 => /\ res = 0 /\ step' # "end"
                    /\ step' \in Over <=> step \in Over
    BY <1>1, <1>11 DEF SlaveDown, IfTypes
  <2> QED
    BY <1>1, <1>2, <2>1, <2>2, <2>3, TurnStays
<1>12. CASE SlaveAddr
  <2>1. slaves' = slaves /\ given_slaves' = given_slaves /\ cmd' = cmd
    BY <1>12 DEF SlaveAddr
  <2>2. \A k \in All : dev'[k].slave = dev[k].slave
    BY <1>1, <1>12, SetAddrDoes DEF SlaveAddr
  <2>3. res' = 0 => /\ res = 0 /\ step' # "end"
                    /\ step' \in Over <=> step \in Over
    BY <1>1, <1>12 DEF SlaveAddr, IfTypes
  <2> QED
    BY <1>1, <1>2, <2>1, <2>2, <2>3, TurnStays
<1>13. CASE SlaveMtu
  <2>1. slaves' = slaves /\ given_slaves' = given_slaves /\ cmd' = cmd
    BY <1>13 DEF SlaveMtu
  <2>2. \A k \in All : dev'[k].slave = dev[k].slave
    BY <1>1, <1>13, SetMtuDoes DEF SlaveMtu
  <2>3. res' = 0 => /\ res = 0 /\ step' # "end"
                    /\ step' \in Over <=> step \in Over
    BY <1>1, <1>13 DEF SlaveMtu, IfTypes
  <2> QED
    BY <1>1, <1>2, <2>1, <2>2, <2>3, TurnStays
<1>14. CASE ChooseHwaddr
  <2>1. slaves' = slaves /\ given_slaves' = given_slaves /\ cmd' = cmd
    BY <1>14 DEF ChooseHwaddr
  <2>2. \A k \in All : dev'[k].slave = dev[k].slave
    BY <1>1, <1>14 DEF ChooseHwaddr
  <2>3. res' = 0 => /\ res = 0 /\ step' # "end"
                    /\ step' \in Over <=> step \in Over
    BY <1>1, <1>14 DEF ChooseHwaddr, IfTypes
  <2> QED
    BY <1>1, <1>2, <2>1, <2>2, <2>3, TurnStays
<1>15. CASE SlaveHwaddr
  <2>1. slaves' = slaves /\ given_slaves' = given_slaves /\ cmd' = cmd
    BY <1>15 DEF SlaveHwaddr
  <2>2. \A k \in All : dev'[k].slave = dev[k].slave
    BY <1>1, <1>15, SetHwDoes DEF SlaveHwaddr
  <2>3. res' = 0 => /\ res = 0 /\ step' # "end"
                    /\ step' \in Over <=> step \in Over
    BY <1>1, <1>15 DEF SlaveHwaddr, IfTypes
  <2> QED
    BY <1>1, <1>2, <2>1, <2>2, <2>3, TurnStays
<1>16. CASE SlaveUp
  <2>1. slaves' = slaves /\ given_slaves' = given_slaves /\ cmd' = cmd
    BY <1>16 DEF SlaveUp
  <2>2. \A k \in All : dev'[k].slave = dev[k].slave
    BY <1>1, <1>16, SetUpDoes DEF SlaveUp
  <2>3. res' = 0 => /\ res = 0 /\ step' # "end"
                    /\ step' \in Over <=> step \in Over
    BY <1>1, <1>16 DEF SlaveUp, IfTypes
  <2> QED
    BY <1>1, <1>2, <2>1, <2>2, <2>3, TurnStays
<1>17. CASE MasterDown
  <2>1. slaves' = slaves /\ given_slaves' = given_slaves /\ cmd' = cmd
    BY <1>17 DEF MasterDown
  <2>2. \A k \in All : dev'[k].slave = dev[k].slave
    BY <1>1, <1>17, SetDownDoes DEF MasterDown
  <2>3. res' = 0 => /\ res = 0 /\ step' # "end"
                    /\ step' \in Over <=> step \in Over
    BY <1>1, <1>17 DEF MasterDown, IfTypes
  <2> QED
    BY <1>1, <1>2, <2>1, <2>2, <2>3, TurnStays
<1>18. CASE MasterHwaddr
  <2>1. slaves' = slaves /\ given_slaves' = given_slaves /\ cmd' = cmd
    BY <1>18 DEF MasterHwaddr
  <2>2. \A k \in All : dev'[k].slave = dev[k].slave
    BY <1>1, <1>18, SetHwDoes DEF MasterHwaddr
  <2>3. res' = 0 => /\ res = 0 /\ step' # "end"
                    /\ step' \in Over <=> step \in Over
    BY <1>1, <1>18 DEF MasterHwaddr, IfTypes
  <2> QED
    BY <1>1, <1>2, <2>1, <2>2, <2>3, TurnStays
<1>19. CASE MasterUp
  <2>1. slaves' = slaves /\ given_slaves' = given_slaves /\ cmd' = cmd
    BY <1>19 DEF MasterUp
  <2>2. \A k \in All : dev'[k].slave = dev[k].slave
    BY <1>1, <1>19, SetUpDoes DEF MasterUp
  <2>3. res' = 0 => /\ res = 0 /\ step' # "end"
                    /\ step' \in Over <=> step \in Over
    BY <1>1, <1>19 DEF MasterUp, IfTypes
  <2> QED
    BY <1>1, <1>2, <2>1, <2>2, <2>3, TurnStays
<1>20. CASE BondEnslave
  <2>1. slaves' = slaves /\ given_slaves' = given_slaves /\ cmd' = cmd /\ step = "enslave"
    BY <1>20 DEF BondEnslave
  <2>2. res' = 0 => /\ res = 0 /\ (dev'[Slave].slave)
                    /\ \A k \in All : k # Slave => dev'[k].slave = dev[k].slave
                    /\ step' \in Over
    BY <1>1, <1>20, <2>1, AttachDoes DEF BondEnslave, Rollback
  <2>3. cmd = "enslave" /\ slaves # <<>>
    BY <2>1
  <2>4. ToGo = slaves /\ (res' = 0 => ToGo' = Tail(slaves))
    BY <2>1, <2>2 DEF ToGo
  <2> QED
    BY <1>1, <1>2, <2>1, <2>2, <2>3, <2>4
<1>21. CASE UndoMasterMac
  <2>1. slaves' = slaves /\ given_slaves' = given_slaves /\ cmd' = cmd
    BY <1>21 DEF UndoMasterMac
  <2>2. \A k \in All : dev'[k].slave = dev[k].slave
    BY <1>1, <1>21, SetHwDoes DEF UndoMasterMac
  <2>3. res' = 0 => /\ res = 0 /\ step' # "end"
                    /\ step' \in Over <=> step \in Over
    BY <1>1, <1>21 DEF UndoMasterMac, IfTypes
  <2> QED
    BY <1>1, <1>2, <2>1, <2>2, <2>3, TurnStays
<1>22. CASE UndoSlaveMac
  <2>1. slaves' = slaves /\ given_slaves' = given_slaves /\ cmd' = cmd
    BY <1>22 DEF UndoSlaveMac
  <2>2. \A k \in All : dev'[k].slave = dev[k].slave
    BY <1>1, <1>22, SetHwDoes DEF UndoSlaveMac
  <2>3. res' = 0 => /\ res = 0 /\ step' # "end"
                    /\ step' \in Over <=> step \in Over
    BY <1>1, <1>22 DEF UndoSlaveMac, IfTypes
  <2> QED
    BY <1>1, <1>2, <2>1, <2>2, <2>3, TurnStays
<1>23. CASE UndoMtu
  <2>1. slaves' = slaves /\ given_slaves' = given_slaves /\ cmd' = cmd
    BY <1>23 DEF UndoMtu
  <2>2. \A k \in All : dev'[k].slave = dev[k].slave
    BY <1>1, <1>23, SetMtuDoes DEF UndoMtu
  <2>3. res' = 0 => /\ res = 0 /\ step' # "end"
                    /\ step' \in Over <=> step \in Over
    BY <1>1, <1>23 DEF UndoMtu, IfTypes
  <2> QED
    BY <1>1, <1>2, <2>1, <2>2, <2>3, TurnStays
<1>24. CASE BondRelease
  <2>1. slaves' = slaves /\ given_slaves' = given_slaves /\ cmd' = cmd /\ step = "detach"
    BY <1>24 DEF BondRelease
  <2>2. res' = 0 => /\ res = 0 /\ (~ dev'[Slave].slave)
                    /\ \A k \in All : k # Slave => dev'[k].slave = dev[k].slave
                    /\ step' \in Over
    BY <1>1, <1>24, <2>1, ReleaseDoes DEF BondRelease, Rollback
  <2>3. cmd = "detach" /\ slaves # <<>>
    BY <2>1
  <2>4. ToGo = slaves /\ (res' = 0 => ToGo' = Tail(slaves))
    BY <2>1, <2>2 DEF ToGo
  <2> QED
    BY <1>1, <1>2, <2>1, <2>2, <2>3, <2>4
<1>25. CASE ReleaseDown
  <2>1. slaves' = slaves /\ given_slaves' = given_slaves /\ cmd' = cmd
    BY <1>25 DEF ReleaseDown
  <2>2. \A k \in All : dev'[k].slave = dev[k].slave
    BY <1>1, <1>25, SetDownDoes DEF ReleaseDown
  <2>3. res' = 0 => /\ res = 0 /\ step' # "end"
                    /\ step' \in Over <=> step \in Over
    BY <1>1, <1>25 DEF ReleaseDown, IfTypes
  <2> QED
    BY <1>1, <1>2, <2>1, <2>2, <2>3, TurnStays
<1>26. CASE ReleaseMtu
  <2>1. slaves' = slaves /\ given_slaves' = given_slaves /\ cmd' = cmd
    BY <1>26 DEF ReleaseMtu
  <2>2. \A k \in All : dev'[k].slave = dev[k].slave
    BY <1>1, <1>26, SetMtuDoes DEF ReleaseMtu, Mtus
  <2>3. res' = 0 => /\ res = 0 /\ step' # "end"
                    /\ step' \in Over <=> step \in Over
    BY <1>1, <1>26 DEF ReleaseMtu, IfTypes
  <2> QED
    BY <1>1, <1>2, <2>1, <2>2, <2>3, TurnStays
<1>27. CASE ChangeActive
  BY <1>1, <1>2, <1>27 DEF ChangeActive, ToGo, Early, IfTypes
<1>28. CASE UNCHANGED ifVars
  BY <1>1, <1>2, <1>28 DEF ifVars, ToGo, Early, IfTypes
<1> QED
  BY <1>3, <1>4, <1>5, <1>6, <1>7, <1>8, <1>9, <1>10, <1>11, <1>12, <1>13, <1>14, <1>15,
     <1>16, <1>17, <1>18, <1>19, <1>20, <1>21, <1>22, <1>23, <1>24, <1>25, <1>26, <1>27,
     <1>28 DEF Next

--------------------------------------------------------------------------
(* The theorems. *)
BondInv ==
  /\ IfTypes /\ StepsInv /\ ToldInv
  /\ ServedInv /\ MtuInv /\ UpInv /\ StayUpInv /\ HwInv /\ FreshInv

LEMMA BondInductive ==
  ASSUME BondInstance
  PROVE  /\ Init => BondInv
         /\ BondInv /\ [Next]_ifVars => BondInv'
<1>1. Init => BondInv
  BY TypesInit, StepsInit, ToldInit, ServedInit, MtuInit, UpInit, StayUpInit, HwInit, FreshInit DEF BondInv
<1>2. ASSUME BondInv, [Next]_ifVars
      PROVE  BondInv'
  <2>1. IfTypes' /\ StepsInv'
    BY <1>2, TypesStep, StepsStep DEF BondInv
  <2>2. ServedInv'
    BY <1>2, ServedStep DEF BondInv
  <2>3. MtuInv' /\ UpInv' /\ HwInv'
    BY <1>2, MtuStep, UpStep, HwStep DEF BondInv
  <2>4. ToldInv' /\ StayUpInv' /\ FreshInv'
    BY <1>2, ToldStep, StayUpStep, FreshStep DEF BondInv
  <2> QED
    BY <2>1, <2>2, <2>3, <2>4 DEF BondInv
<1> QED
  BY <1>1, <1>2

\* What the program left behind when it ended.
LEMMA BondImplied == BondInv => BondIsRight
<1> SUFFICES ASSUME BondInv, step = "end", res # 2
             PROVE  BondIsRight
  BY DEF BondIsRight
<1>1. \A i \in Cards : dev[i].slave \in BOOLEAN
  BY DEF BondInv, IfTypes, Ifaces, Iface, All
<1>2. \A i \in ToSet(given_slaves) : i \in Cards
  BY InRange DEF BondInv, IfTypes
<1>3. res = 0 /\ cmd \in {"enslave", "detach"} =>
        \A i \in ToSet(given_slaves) : dev[i].slave <=> cmd = "enslave"
  <2> SUFFICES ASSUME res = 0, cmd \in {"enslave", "detach"}, NEW i \in ToSet(given_slaves)
               PROVE  dev[i].slave <=> cmd = "enslave"
    OBVIOUS
  <2>1. slaves = <<>>
    BY DEF BondInv, ServedInv
  <2>2. ToSet(ToGo) = {}
    BY <2>1 DEF ToGo, ToSet
  <2> QED
    BY <2>2 DEF BondInv, ServedInv
<1>4. res = 0 /\ cmd \in {"enslave", "detach"} =>
        \A i \in ToSet(given_slaves) : dev[i].slave = (cmd = "enslave")
  BY <1>1, <1>2, <1>3
<1>5. cmd = "enslave" =>
        \A i \in Cards :
          IF dev[i].slave THEN dev[i].up /\ dev[i].mtu = dev[Master].mtu
          ELSE Happened({"undo_mtu"}) \/ dev[i].mtu = before[i].mtu
  BY DEF BondInv, MtuInv, StayUpInv, MtuLost, MtuSet, Undoing
<1>8. Happened({"enslave"}) \/ Happened({"master_hw", "master_up"}) => res = 1
  BY Zenon DEF BondInv, ToldInv, MasterLost, Refused
<1>9. dev[Master].up \in BOOLEAN /\ before[Master].up \in BOOLEAN /\ abi_ver \in Int
  BY DEF BondInv, IfTypes, Ifaces, Iface, All
<1>6. Changed("up") => res = 1 /\ abi_ver < 1 /\ Happened({"master_hw", "master_up"})
  <2> SUFFICES ASSUME dev[Master].up # before[Master].up
               PROVE  abi_ver < 1 /\ Happened({"master_hw", "master_up"})
    BY <1>8 DEF Changed
  <2>1. Happened({"master_hw", "master_up"})
    BY DEF BondInv, UpInv, MasterLost
  <2>2. abi_ver < 1
    BY <1>9 DEF BondInv, StayUpInv
  <2> QED
    BY <2>1, <2>2
<1>7. before[Master].hw # NoHw \/ abi_ver >= 1 =>
        OneAddress \/ (res = 1 /\ Happened({"enslave"}))
  <2> SUFFICES ASSUME before[Master].hw # NoHw \/ ~ (abi_ver < 1), ~ Refused
               PROVE  OneAddress
    BY <1>8, <1>9 DEF Refused
  <2>1. CASE before[Master].hw # NoHw
    BY <2>1 DEF BondInv, HwInv, OneAddress
  <2>2. CASE before[Master].hw = NoHw
    BY <2>2 DEF BondInv, FreshInv
  <2> QED
    BY <2>1, <2>2
<1> QED
  BY <1>4, <1>5, <1>6, <1>7 DEF BondIsRight

\* The interfaces and the program's state keep their types, for any slaves,
\* any driver and any failures (ifenslave.c:259-515).
THEOREM BondTypeCorrect == BondInstance => (Spec => []TypeOK)
<1>1. BondInv => TypeOK
  <2> SUFFICES ASSUME BondInv PROVE TypeOK
    OBVIOUS
  <2>1. \A i \in DOMAIN dev : dev[i].up \in BOOLEAN
    BY DEF BondInv, IfTypes, Ifaces, Iface
  <2>2. \A i \in DOMAIN dev : dev[i].up \in BOOLEAN /\ dev[i].mtu \in {1500, 9000}
    BY <2>1 DEF BondInv, IfTypes, Ifaces, Iface, Mtus
  <2>3. hwaddr_set \in BOOLEAN
    BY Zenon DEF BondInv, IfTypes
  <2>4. res \in 0 .. 2 /\ Len(failures) <= MaxFailures
    BY DEF BondInv, IfTypes
  <2>5. ToSet(slaves) \subseteq Cards
    BY InRange DEF BondInv, IfTypes
  <2> QED
    BY <2>2, <2>3, <2>4, <2>5 DEF TypeOK
<1> SUFFICES ASSUME BondInstance PROVE Spec => []TypeOK
  OBVIOUS
<1> QED
  BY <1>1, BondInductive, PTL DEF Spec

\* Whatever ioctls fail, for any slaves on the command line, named twice or
\* not: status 0 means that every slave is attached, or detached; one that is
\* attached is up with the master's mtu, one that was refused has its own mtu
\* again, unless that could not be set; and a master left down, or slaves left
\* without its address, come only of the failures that BondIsRight names, and
\* the status tells of them (ifenslave.c:440-515, 686-886).
THEOREM BondsAreKept == BondInstance => (Spec => []BondIsRight)
<1> SUFFICES ASSUME BondInstance PROVE Spec => []BondIsRight
  OBVIOUS
<1> QED
  BY BondInductive, BondImplied, PTL DEF Spec

=============================================================================
