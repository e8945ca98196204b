------------------------------ MODULE IfEnslave ------------------------------
(***************************************************************************)
(* package/network/ifenslave/ifenslave.c: attaches interfaces to a bonding *)
(* master, detaches them, or makes one of them the active one.  Every      *)
(* ioctl is a step that may fail; what was changed is then taken back.     *)
(***************************************************************************)
EXTENDS Integers, Sequences, SequencesExt, FiniteSets

CONSTANTS
  Master,      \* the master interface
  Cards,       \* other interfaces
  SlaveLists,  \* slaves that a command line names
  Abis,        \* ABI versions of the bonding driver
  MaxFailures  \* bound on the ioctls that fail

VARIABLES
  dev,        \* kernel: state of the interfaces
  active,     \* kernel: the active slave
  abi_ver,    \* ABI version that the driver told
  cmd,        \* command line: "enslave", "detach", "change", "usage"
  slaves,     \* slaves to go; the first is in hand
  master_is,  \* settings of the master when the program started
  slave_is,   \* settings of the slave in hand
  hwaddr_set, \* the master has a hardware address
  step,       \* the next ioctl
  res,        \* exit status
  failures,   \* history: the ioctls that failed
  before,     \* history: the interfaces when the program started
  given_slaves \* history: the slaves on the command line

ifVars == <<dev, active, abi_ver, cmd, slaves, master_is, slave_is, hwaddr_set, step, res, failures, before, given_slaves>>
given == <<abi_ver, cmd, before, given_slaves>>

NoHw == "none"
Slave == Head(slaves)

(* The interfaces after an ioctl that did not fail. *)
SetUp(i) == [dev EXCEPT ![i].up = TRUE]
SetDown(i) == [dev EXCEPT ![i].up = FALSE]
SetAddr(i, v) == [dev EXCEPT ![i].addr = v]
SetMtu(i, v) == [dev EXCEPT ![i].mtu = v]
SetHw(i, v) == [dev EXCEPT ![i].hw = v]
Attach(i, hw) == [dev EXCEPT ![i] = [@ EXCEPT !.slave = TRUE, !.up = TRUE, !.hw = hw]]
Release(i) == [dev EXCEPT ![i].slave = FALSE]

--------------------------------------------------------------------------
(* An ioctl gives the interfaces new, and goes on at the step ok; or fails. *)
Ioctl(name, new, ok, failed) ==
  /\ step = name
  /\ \/ dev' = new /\ step' = ok /\ UNCHANGED failures
     \/ /\ Len(failures) < MaxFailures
        /\ failures' = Append(failures, name)
        /\ step' = failed /\ UNCHANGED dev

Keeps == UNCHANGED <<given, active, slaves, master_is, slave_is, hwaddr_set>>

(* The handshake: 0 is the version of a driver that knows of none. *)
GetDrvInfo ==
  /\ Ioctl("drvinfo", dev, "settings", "end")
  /\ res' = IF step' = "end" THEN 1 ELSE 0
  /\ Keeps

(* No slave: nothing to work on, or to show the master only. *)
NoSlave ==
  /\ step = "settings" /\ slaves = <<>>
  /\ step' = "end" /\ res' = IF cmd = "enslave" THEN 0 ELSE 2
  /\ UNCHANGED <<given, dev, active, slaves, master_is, slave_is, hwaddr_set, failures>>

(* A master that is up; one that slaves are attached to is an Ethernet one. *)
Usable(m) == m.master /\ m.up /\ (cmd = "enslave" => m.ether)

GetMasterSettings ==
  /\ slaves # <<>>
  /\ Ioctl("settings", dev, IF Usable(dev[Master]) THEN "slave" ELSE "end", "end")
  /\ master_is' = dev[Master]
  /\ res' = IF step' = "end" THEN 1 ELSE 0
  /\ hwaddr_set' = (cmd = "enslave" /\ dev[Master].hw # NoHw)
  /\ UNCHANGED <<given, active, slaves, slave_is>>

(* The settings of the next slave; one that cannot be read is skipped.  An  *)
(* interface that is a slave cannot be attached, and no other be detached.  *)
GetSlaveSettings ==
  /\ step = "slave" /\ slaves # <<>>
  /\ \/ /\ slave_is' = dev[Slave]
        /\ LET wrong == dev[Slave].slave = (cmd = "enslave") IN
           /\ step' = IF wrong THEN "next" ELSE IF cmd = "enslave" THEN "down" ELSE cmd
           /\ res' = IF wrong THEN 1 ELSE res
        /\ UNCHANGED failures
     \/ /\ Len(failures) < MaxFailures
        /\ failures' = Append(failures, "slave")
        /\ step' = "next" /\ res' = 1 /\ UNCHANGED slave_is
  /\ UNCHANGED <<given, dev, active, slaves, master_is, hwaddr_set>>

NextSlave ==
  /\ step = "next"
  /\ slaves' = Tail(slaves) /\ step' = IF cmd = "change" THEN "end" ELSE "slave"
  /\ UNCHANGED <<given, dev, active, master_is, slave_is, hwaddr_set, res, failures>>

LastSlave ==
  /\ step = "slave" /\ slaves = <<>>
  /\ step' = "end"
  /\ UNCHANGED <<given, dev, active, slaves, master_is, slave_is, hwaddr_set, res, failures>>

--------------------------------------------------------------------------
(* enslave: a failed ioctl ends the work on this slave. *)
Fails(at) == res' = IF step' = at THEN 1 ELSE res

SlaveDown ==
  /\ Ioctl("down", SetDown(Slave), "addr", "next")
  /\ Fails("next") /\ Keeps

(* Old drivers want the master's address, later ones none. *)
SlaveAddr ==
  /\ Ioctl("addr", SetAddr(Slave, IF abi_ver < 2 THEN dev[Master].addr ELSE NoHw),
           IF master_is.mtu # slave_is.mtu THEN "mtu" ELSE "hwaddr", "next")
  /\ Fails("next") /\ Keeps

SlaveMtu ==
  /\ Ioctl("mtu", SetMtu(Slave, master_is.mtu), "hwaddr", "next")
  /\ Fails("next") /\ Keeps

ChooseHwaddr ==
  /\ step = "hwaddr"
  /\ step' = IF hwaddr_set THEN (IF abi_ver < 1 THEN "slave_hw" ELSE "enslave")
             ELSE (IF abi_ver < 1 THEN "master_down" ELSE "master_hw")
  /\ UNCHANGED <<given, dev, active, slaves, master_is, slave_is, hwaddr_set, res, failures>>

SlaveHwaddr ==
  /\ Ioctl("slave_hw", SetHw(Slave, master_is.hw), "slave_up", "undo_mtu")
  /\ Fails("undo_mtu") /\ Keeps

SlaveUp ==
  /\ Ioctl("slave_up", SetUp(Slave), "enslave", "undo_slave_mac")
  /\ Fails("undo_slave_mac") /\ Keeps

MasterDown ==
  /\ Ioctl("master_down", SetDown(Master), "master_hw", "undo_mtu")
  /\ Fails("undo_mtu") /\ Keeps

HasHwaddr(done) ==
  hwaddr_set' = IF step' = done THEN TRUE ELSE hwaddr_set

MasterHwaddr ==
  /\ Ioctl("master_hw", SetHw(Master, slave_is.hw), IF abi_ver < 1 THEN "master_up" ELSE "enslave", "undo_mtu")
  /\ Fails("undo_mtu") /\ HasHwaddr("enslave")
  /\ UNCHANGED <<given, active, slaves, master_is, slave_is>>

MasterUp ==
  /\ Ioctl("master_up", SetUp(Master), "enslave", "undo_master_mac")
  /\ Fails("undo_master_mac") /\ HasHwaddr("enslave")
  /\ UNCHANGED <<given, active, slaves, master_is, slave_is>>

(* Variant: where the work goes on when the driver refuses the slave. *)
NoRollback == "next"

Rollback == "undo_master_mac"

(* The driver (external) takes a slave that is down, gives it the master's   *)
(* hardware address and brings it up, if its ABI is not the oldest.          *)
BondEnslave ==
  /\ Ioctl("enslave",
           Attach(Slave, IF abi_ver < 1 THEN dev[Slave].hw ELSE dev[Master].hw),
           "next", Rollback)
  /\ Fails(Rollback) /\ Keeps

UndoMasterMac ==
  /\ Ioctl("undo_master_mac", SetHw(Master, master_is.hw), "undo_mtu", "undo_mtu")
  /\ hwaddr_set' = FALSE
  /\ UNCHANGED <<given, active, slaves, master_is, slave_is, res>>

UndoSlaveMac ==
  /\ Ioctl("undo_slave_mac", SetHw(Slave, slave_is.hw), "undo_mtu", "undo_mtu")
  /\ Keeps /\ UNCHANGED res

UndoMtu ==
  /\ Ioctl("undo_mtu", SetMtu(Slave, slave_is.mtu), "next", "next")
  /\ Keeps /\ UNCHANGED res

--------------------------------------------------------------------------
BondRelease ==
  /\ Ioctl("detach", Release(Slave), IF abi_ver < 1 THEN "release_down" ELSE "release_mtu", "next")
  /\ Fails("next") /\ Keeps

(* A failure is told, and the mtu is set all the same. *)
ReleaseDown ==
  /\ Ioctl("release_down", SetDown(Slave), "release_mtu", "release_mtu")
  /\ res' = IF failures' # failures THEN 1 ELSE res
  /\ Keeps

ReleaseMtu ==
  /\ Ioctl("release_mtu", SetMtu(Slave, 1500), "next", "next")
  /\ Keeps /\ UNCHANGED res

ChangeActive ==
  /\ Ioctl("change", dev, "next", "next")
  /\ active' = IF failures' = failures THEN Slave ELSE active
  /\ res' = IF failures' = failures THEN res ELSE 1
  /\ UNCHANGED <<given, slaves, master_is, slave_is, hwaddr_set>>

(* Two options that exclude each other. *)
Usage ==
  /\ step = "start" /\ cmd = "usage"
  /\ res' = 2 /\ step' = "end"
  /\ UNCHANGED <<given, dev, active, slaves, master_is, slave_is, hwaddr_set, failures>>

Start ==
  /\ step = "start" /\ cmd # "usage"
  /\ step' = "drvinfo"
  /\ UNCHANGED <<given, dev, active, slaves, master_is, slave_is, hwaddr_set, res, failures>>

(* A network card before the program, attached or not; the master.  ether: it *)
(* is an Ethernet interface, or the option -f says to take it for one.        *)
Card(i, attached, m) ==
  [master |-> FALSE, ether |-> TRUE, slave |-> i \in attached, up |-> TRUE, mtu |-> IF i \in attached THEN m.mtu ELSE 1500,
   hw |-> IF i \in attached THEN m.hw ELSE i, addr |-> NoHw]

DevInit ==
  \E m \in [master : BOOLEAN, ether : BOOLEAN, slave : BOOLEAN, up : BOOLEAN, mtu : {9000}, hw : {NoHw, "bond"}, addr : {"ip"}],
     attached \in SUBSET Cards :
    /\ ~ m.slave /\ (attached # {} => m.hw # NoHw)
    /\ dev = [i \in Cards \cup {Master} |-> IF i = Master THEN m ELSE Card(i, attached, m)]

Init ==
  /\ DevInit
  /\ abi_ver \in Abis /\ cmd \in {"enslave", "detach", "change", "usage"} /\ slaves \in SlaveLists
  /\ before = dev /\ given_slaves = slaves /\ master_is = dev[Master] /\ slave_is = dev[Master]
  /\ active = Master /\ hwaddr_set = FALSE /\ step = "start" /\ res = 0 /\ failures = <<>>

Next ==
  \/ Start \/ Usage \/ GetDrvInfo \/ NoSlave \/ GetMasterSettings \/ GetSlaveSettings \/ NextSlave \/ LastSlave
  \/ SlaveDown \/ SlaveAddr \/ SlaveMtu \/ ChooseHwaddr \/ SlaveHwaddr \/ SlaveUp
  \/ MasterDown \/ MasterHwaddr \/ MasterUp \/ BondEnslave
  \/ UndoMasterMac \/ UndoSlaveMac \/ UndoMtu
  \/ BondRelease \/ ReleaseDown \/ ReleaseMtu \/ ChangeActive

Spec == Init /\ [][Next]_ifVars

--------------------------------------------------------------------------
(* The types of the interfaces and of the program's state. *)
TypeOK ==
  /\ \A i \in DOMAIN dev : dev[i].up \in BOOLEAN /\ dev[i].mtu \in {1500, 9000}
  /\ ToSet(slaves) \subseteq Cards /\ hwaddr_set \in BOOLEAN
  /\ res \in 0..2 /\ Len(failures) <= MaxFailures

Attached == {i \in Cards : dev[i].slave}
Happened(names) == ToSet(failures) \cap names # {}

Changed(f) == dev[Master][f] # before[Master][f]
OneAddress == \A i \in Attached : dev[i].hw = dev[Master].hw

(* What the program leaves behind (ifenslave.c:440-507, 686-886), with an     *)
(* ioctl failing anywhere.  Status 0 means that the slaves it was given are   *)
(* attached, or detached, that the master is as up as before, and that all    *)
(* slaves have its address.  Whatever the status, an attached slave is up and *)
(* has the master's mtu, and one that was refused has its own again, unless   *)
(* that could not be set.  The rest of the undoing is "best effort": a failed *)
(* attempt may leave                                                          *)
(*   - the refused slave down and without its ip address,                     *)
(*   - the master down, where the driver is so old that the program took it   *)
(*     down and could not set its address or bring it up (781-812),           *)
(*   - the slaves attached before without the master's address, which is      *)
(*     taken back when the driver refuses a later one (837-839),              *)
(* and the property demands that it happens in these cases only, and that the *)
(* status then tells of a failure.  One case is excepted: an old driver and a *)
(* master that had no address, where the second slave is given the address    *)
(* that the program read at its start, none (738-755).                        *)
BondIsRight ==
  step = "end" /\ res # 2 =>
    /\ res = 0 /\ cmd \in {"enslave", "detach"} =>
         \A i \in ToSet(given_slaves) : dev[i].slave = (cmd = "enslave")
    /\ cmd = "enslave" =>
         \A i \in Cards :
           IF dev[i].slave THEN dev[i].up /\ dev[i].mtu = dev[Master].mtu
           ELSE Happened({"undo_mtu"}) \/ dev[i].mtu = before[i].mtu
    /\ Changed("up") => res = 1 /\ abi_ver < 1 /\ Happened({"master_hw", "master_up"})
    /\ before[Master].hw # NoHw \/ abi_ver >= 1 =>
         OneAddress \/ (res = 1 /\ Happened({"enslave"}))
==============================================================================
