--------------------------- MODULE UsbhEnumProofs ---------------------------
(***************************************************************************)
(* For any number of ports, any size of the address space and of the CDC   *)
(* ACM pool and any devices, plugged and unplugged and failing anywhere:   *)
(* the addresses, the class instances and the resources of the ports are   *)
(* accounted for exactly.                                                  *)
(***************************************************************************)
EXTENDS UsbhEnum, SeqLemmas, FiniteSetTheorems

Pcs == {"idle", "desc8", "setaddr", "desc", "cfg9", "cfg", "setcfg", "load"}

\* The enumeration in progress.
CurType ==
  cur \in [pc : Pcs, port : Ports, addr : Addrs \union {0}, i : Nat, ret : {-1, 0},
           dev : Devices \union {<<>>}]

\* What the port of the enumeration has at each of its steps; a port that is
\* not connected is empty.
PortInv ==
  /\ \A p \in Ports : ~port[p].connected => port[p] = Unplugged
  /\ cur.pc # "idle" => port[cur.port].connected /\ cur.dev \in Devices
  /\ cur.pc \in {"desc8", "setaddr"} => port[cur.port].addr = 0
  /\ cur.pc = "setaddr" => cur.addr # 0
  /\ cur.pc \in {"desc8", "setaddr", "desc", "cfg9", "cfg"} => port[cur.port].intf = <<>>
  /\ cur.pc \in {"setcfg", "load"} => Len(port[cur.port].intf) = Len(cur.dev)
  /\ cur.pc = "setcfg" => \A j \in 1..Len(cur.dev) : port[cur.port].intf[j].priv = NoPriv
  /\ cur.pc = "load" => /\ cur.i \in 1..(Len(cur.dev) + 1)
                        /\ \A j \in cur.i..Len(cur.dev) : port[cur.port].intf[j].priv = NoPriv

HasAddr(p) == port[p].addr # 0

\* An address is in alloctab because one port has it, or the enumeration in
\* progress, or it was lost; never for two of these reasons.
AddrInv ==
  /\ \A p, q \in Ports : HasAddr(p) /\ port[p].addr = port[q].addr => p = q
  /\ \A a \in Addrs : a \in alloctab <=>
       \/ \E p \in Ports : port[p].addr = a
       \/ cur.pc = "setaddr" /\ cur.addr = a
       \/ a \in leaked
  /\ \A p \in Ports : HasAddr(p) =>
       port[p].addr \notin leaked /\ ~(cur.pc = "setaddr" /\ cur.addr = port[p].addr)
  /\ cur.pc = "setaddr" => cur.addr \notin leaked

\* Interface i of port p refers to instance n of the driver d.
Has(p, i, d, n) ==
  i \in DOMAIN port[p].intf /\ port[p].intf[i].drv = d /\ port[p].intf[i].priv = n

\* The pools, the applications and the interfaces of the ports.
ClassInv ==
  /\ \A p \in Ports : Len(port[p].intf) <= MaxInterfaces
  /\ \A d \in Pooled, n \in 0..NAcm :
       n \in devinuse[d] <=> \E p \in Ports, i \in 1..MaxInterfaces : Has(p, i, d, n)
  /\ \A d \in Pooled, p, q \in Ports, i, j \in 1..MaxInterfaces, n \in 0..NAcm :
       Has(p, i, d, n) /\ Has(q, j, d, n) => p = q /\ i = j
  /\ \A n \in 0..NAcm :
       <<"acm", n>> \in running <=> \E p \in Ports, i \in 1..MaxInterfaces : Has(p, i, "acm", n)
  /\ \A p \in Ports, i \in 1..MaxInterfaces, n \in 0..NAcm :
       Has(p, i, "acm", n) => port[p].intf[i].name
  /\ running \subseteq {"acm", "rndis"} \X (0..NAcm)
  /\ rndis # -1 => \E i \in 1..MaxInterfaces, n \in 0..NAcm : Has(rndis, i, "rndis", n)
  /\ devinuse["hub"] \subseteq {0}

\* The hub is the device of the root port.
HubInv ==
  /\ \A p \in Ports : HasHub(p) => p = 0
  /\ hub.connected => HasHub(0)
  /\ \A p \in Ports : port[p].connected /\ p # 0 => hub.connected

\* One mutex per connected port, and a configuration copy only in between.
ResourceInv ==
  /\ mutexes = Cardinality(InUse)
  /\ heap \subseteq {p \in {cur.port} : cur.pc # "idle"}

IInv == TypeOK /\ CurType /\ PortInv /\ AddrInv /\ ClassInv /\ HubInv /\ ResourceInv

\* A connected hub without its timer is about to be released.
TimerInv ==
  hub.connected /\ ~hub.timer =>
    cur.pc = "load" /\ cur.port = 0 /\ cur.i = Len(cur.dev) + 1 /\ cur.ret = -1

\* The records of the ports.
PortRec == [connected : BOOLEAN, addr : Addrs \union {0}, intf : Seq(Intf)]

\* TypeOK but for cur.
VarType ==
  /\ next \in Addrs /\ alloctab \subseteq Addrs /\ leaked \subseteq Addrs
  /\ port \in [Ports -> PortRec]
  /\ devinuse \in [Pooled -> SUBSET (0 .. NAcm)]
  /\ hub \in [connected : BOOLEAN, timer : BOOLEAN]
  /\ rndis \in Ports \union {-1} /\ heap \subseteq Ports /\ mutexes \in Nat

-----------------------------------------------------------------------------
(* Types, and steps that leave most of the state alone.                    *)

\* A function on 1..n is a sequence.
LEMMA FunctionSeq ==
  ASSUME NEW T, NEW n \in Nat, NEW f \in [1..n -> T]
  PROVE  f \in Seq(T) /\ Len(f) = n /\ DOMAIN f = 1..n
OBVIOUS

\* The interfaces of a configuration have numbers the port has room for.
LEMMA InterfaceNumber ==
  ASSUME NEW n \in Nat, n <= MaxInterfaces, NEW k \in 1..n
  PROVE  k \in 1..MaxInterfaces
BY DEF MaxInterfaces

\* The two ways to say the types.
LEMMA TypeForm == /\ CurType => (TypeOK <=> VarType)
                  /\ CurType' => (TypeOK' <=> VarType')
<1>1. CurType => (TypeOK <=> VarType)
  BY DEF CurType, TypeOK, VarType, PortRec, Pcs
<1>2. CurType' => (TypeOK' <=> VarType')
  BY DEF CurType, TypeOK, VarType, PortRec, Pcs
<1>3. QED BY <1>1, <1>2

\* The fields of the ports.
LEMMA PortFields ==
  ASSUME TypeOK, NEW p \in Ports
  PROVE  /\ port[p] \in PortRec
         /\ port[p].connected \in BOOLEAN /\ port[p].addr \in Addrs \union {0}
         /\ port[p].intf \in Seq(Intf)
         /\ Len(port[p].intf) \in Nat /\ DOMAIN port[p].intf = 1..Len(port[p].intf)
         /\ \A i \in DOMAIN port[p].intf :
              /\ port[p].intf[i] \in Intf
              /\ port[p].intf[i].priv \in -1..NAcm /\ port[p].intf[i].name \in BOOLEAN
<1>1. port[p] \in PortRec
  BY DEF TypeOK, PortRec
<1>2. port[p].connected \in BOOLEAN
  BY <1>1, Zenon DEF PortRec
<1>3. port[p].addr \in Addrs \union {0} /\ port[p].intf \in Seq(Intf)
  BY <1>1 DEF PortRec
<1>4. Len(port[p].intf) \in Nat /\ DOMAIN port[p].intf = 1..Len(port[p].intf)
  BY <1>3, LenProperties
<1>5. ASSUME NEW i \in DOMAIN port[p].intf
      PROVE  /\ port[p].intf[i] \in Intf
             /\ port[p].intf[i].priv \in -1..NAcm /\ port[p].intf[i].name \in BOOLEAN
  <2>1. port[p].intf[i] \in Intf
    BY <1>3, <1>4
  <2>2. QED BY <2>1 DEF Intf
<1>6. QED BY <1>1, <1>2, <1>3, <1>4, <1>5

\* Ports that are connected as before, with the interfaces they had, under
\* class drivers that do nothing.
LEMMA SameIntf ==
  ASSUME ClassInv, HubInv, \A p \in Ports : port'[p].connected = port[p].connected
                                            /\ port'[p].intf = port[p].intf,
         UNCHANGED classVars, rndis \in Ports \union {-1}
  PROVE  ClassInv' /\ HubInv' /\ InUse' = InUse
<1>1. UNCHANGED <<devinuse, hub, rndis, running>>
  BY DEF classVars
<1>2. \A p \in Ports : HasHub(p)' <=> HasHub(p)
  BY DEF HasHub
<1>3. 0 \in Ports
  BY EnumAssumption DEF Ports
<1>4. HubInv'
  BY <1>1, <1>2, <1>3 DEF HubInv
<1>5. \A p \in Ports : \A i, d, n : Has(p, i, d, n)' <=> Has(p, i, d, n)
  BY DEF Has
<1>6. ClassInv'
  BY <1>1, <1>5 DEF ClassInv
<1>7. InUse' = InUse
  BY DEF InUse
<1>8. QED BY <1>4, <1>6, <1>7

\* Addresses when nothing is allocated and nothing released.
LEMMA SameAddr ==
  ASSUME AddrInv, \A p \in Ports : port'[p].addr = port[p].addr,
         UNCHANGED <<alloctab, leaked>>, cur.pc # "setaddr", cur'.pc # "setaddr"
  PROVE  AddrInv'
BY DEF AddrInv, HasAddr

\* The fields of cur.
LEMMA CurFields ==
  ASSUME CurType
  PROVE  /\ cur.pc \in Pcs /\ cur.port \in Ports /\ cur.addr \in Addrs \union {0}
         /\ cur.i \in Nat /\ cur.ret \in {-1, 0}
BY DEF CurType

\* errout: the enumeration is over.
LEMMA IdleCur ==
  ASSUME cur' = Idle
  PROVE  CurType' /\ cur'.pc = "idle"
<1>1. 0 \in Ports
  BY EnumAssumption DEF Ports
<1>2. QED BY <1>1 DEF Idle, CurType, Pcs

-----------------------------------------------------------------------------
(* The steps of usbh_enumerate that only move on.                          *)

\* SET_CONFIGURATION, the descriptors that are only looked at, an interface
\* without a driver, and the end of a successful enumeration.
LEMMA MoveOn ==
  ASSUME IInv, SetConfigurationDone \/ DescriptorArrives \/ SkipInterface
  PROVE  IInv'
<1> USE DEF IInv
<1>1. UNCHANGED <<next, alloctab, port, devinuse, hub, rndis, running, heap, mutexes, leaked>>
  BY DEF SetConfigurationDone, DescriptorArrives, SkipInterface
<1>2. CurType' /\ PortInv' /\ cur.pc \notin {"idle", "setaddr"} /\ cur'.pc \notin {"idle", "setaddr"}
      /\ cur'.port = cur.port
  <2>1. CASE SetConfigurationDone
    <3>1. cur' = [cur EXCEPT !.pc = "load", !.i = 1] /\ cur.pc = "setcfg"
      BY <2>1 DEF SetConfigurationDone
    <3>2. /\ CurType' /\ cur'.pc = "load" /\ cur'.i = 1 /\ cur'.port = cur.port /\ cur'.dev = cur.dev
      BY <3>1 DEF CurType, Pcs
    <3>3. Len(cur.dev) \in Nat
      BY <3>1, EnumAssumption DEF PortInv
    <3>4. 1 \in 1..(Len(cur.dev) + 1)
      BY <3>3
    <3>5. PortInv'
      BY <1>1, <3>1, <3>2, <3>4 DEF PortInv
    <3>6. QED BY <3>1, <3>2, <3>5
  <2>2. CASE DescriptorArrives
    BY <1>1, <2>2 DEF DescriptorArrives, CurType, Pcs, PortInv
  <2>3. CASE SkipInterface
    <3>1. cur' = [cur EXCEPT !.i = cur.i + 1] /\ cur.pc = "load" /\ cur.i \in DOMAIN cur.dev
      BY <2>3 DEF SkipInterface, Loading
    <3>2. /\ CurType' /\ cur'.pc = "load" /\ cur'.i = cur.i + 1 /\ cur'.port = cur.port
          /\ cur'.dev = cur.dev
      BY <3>1 DEF CurType, Pcs
    <3>3. cur.i \in 1..Len(cur.dev) /\ Len(cur.dev) \in Nat
      BY <3>1, EnumAssumption DEF PortInv
    <3>4. cur'.i \in 1..(Len(cur.dev) + 1) /\ \A j \in cur'.i..Len(cur.dev) : j \in cur.i..Len(cur.dev)
      BY <3>2, <3>3
    <3>5. PortInv'
      BY <1>1, <3>1, <3>2, <3>4 DEF PortInv
    <3>6. QED BY <3>1, <3>2, <3>5
  <2>4. QED BY <2>1, <2>2, <2>3
<1>3. VarType'
  BY <1>1, TypeForm DEF VarType
<1>4. AddrInv'
  BY <1>1, <1>2, SameAddr
<1>5. ClassInv' /\ HubInv' /\ InUse' = InUse
  BY <1>1, SameIntf DEF classVars, TypeOK
<1>6. ResourceInv'
  BY <1>1, <1>2, <1>5 DEF ResourceInv
<1>7. QED BY <1>2, <1>3, <1>4, <1>5, <1>6, TypeForm

\* usbh_enumerate returns, and the port stays.
LEMMA ReturnInv ==
  ASSUME IInv, Return, UNCHANGED <<alloctab, leaked, port, mutexes, classVars>>, next' \in Addrs,
         cur.pc # "setaddr"
  PROVE  IInv'
<1> USE DEF IInv
<1>1. CurType' /\ cur'.pc = "idle" /\ heap' = heap \ {cur.port}
  BY IdleCur DEF Return
<1>2. PortInv'
  BY <1>1 DEF PortInv
<1>3. VarType'
  BY <1>1, TypeForm DEF VarType, classVars
<1>4. AddrInv'
  BY <1>1, SameAddr
<1>5. ClassInv' /\ HubInv' /\ InUse' = InUse
  BY SameIntf DEF classVars, TypeOK
<1>6. ResourceInv'
  <2>1. heap' = {}
    BY <1>1 DEF ResourceInv
  <2>2. QED BY <1>5, <2>1 DEF ResourceInv
<1>7. QED BY <1>1, <1>2, <1>3, <1>4, <1>5, <1>6, TypeForm

\* devgen.next stays an address.
LEMMA AfterType == next \in Addrs => After(next) \in Addrs
BY EnumAssumption DEF After, Addrs

\* The address is allocated: it was free, so nobody has it.
LEMMA Desc8Inv ==
  ASSUME IInv, Desc8Arrives
  PROVE  IInv'
<1> USE DEF IInv
<1>1. /\ cur.pc = "desc8" /\ next' = After(next) /\ next' \in Addrs /\ next \in Addrs
      /\ UNCHANGED <<port, mutexes, leaked, classVars>>
  BY AfterType DEF Desc8Arrives, usbh_allocate_devaddr, TypeOK
<1>2. next \in Nat /\ next # 0 /\ ~(next < 0) /\ -1 < 0
  BY <1>1, EnumAssumption DEF Addrs
<1>3. CASE next \in alloctab
  <2>1. Return /\ UNCHANGED alloctab
    BY <1>2, <1>3 DEF Desc8Arrives, usbh_allocate_devaddr
  <2>2. QED BY <1>1, <2>1, ReturnInv
<1>4. CASE next \notin alloctab
  <2>1. /\ alloctab' = alloctab \union {next}
        /\ cur' = [cur EXCEPT !.pc = "setaddr", !.addr = next]
        /\ UNCHANGED heap
    BY <1>2, <1>4 DEF Desc8Arrives, usbh_allocate_devaddr
  <2>2. /\ CurType' /\ cur'.pc = "setaddr" /\ cur'.addr = next /\ cur'.port = cur.port
        /\ cur'.dev = cur.dev
    BY <1>1, <2>1 DEF CurType, Pcs
  <2>3. PortInv'
    BY <1>1, <1>2, <2>2 DEF PortInv
  <2>4. VarType'
    BY <1>1, <2>1, TypeForm DEF VarType, classVars
  <2>5. AddrInv'
    <3>1. \A p \in Ports : port[p].addr # next
      BY <1>1, <1>4 DEF AddrInv
    <3>2. next \notin leaked
      BY <1>1, <1>4 DEF AddrInv
    <3>3. QED BY <1>1, <2>1, <2>2, <3>1, <3>2 DEF AddrInv, HasAddr
  <2>6. ClassInv' /\ HubInv' /\ InUse' = InUse
    BY <1>1, SameIntf DEF classVars, TypeOK
  <2>7. ResourceInv'
    BY <1>1, <2>1, <2>2, <2>6 DEF ResourceInv
  <2>8. QED BY <2>2, <2>3, <2>4, <2>5, <2>6, <2>7, TypeForm
<1>5. QED BY <1>3, <1>4

\* The port gets the address of the enumeration.
LEMMA SetAddressInv ==
  ASSUME IInv, SetAddressDone
  PROVE  IInv'
<1> USE DEF IInv
<1>1. /\ cur.pc = "setaddr" /\ cur' = [cur EXCEPT !.pc = "desc"]
      /\ port' = [port EXCEPT ![cur.port].addr = cur.addr]
      /\ UNCHANGED <<next, alloctab, devinuse, hub, rndis, running, heap, mutexes, leaked>>
  BY DEF SetAddressDone
<1>2. CurType' /\ cur'.pc = "desc" /\ cur'.port = cur.port /\ cur'.dev = cur.dev
  BY <1>1 DEF CurType, Pcs
<1>3. cur.port \in Ports /\ cur.addr \in Addrs
  BY <1>1 DEF CurType, PortInv
<1>4. /\ port' \in [Ports -> PortRec]
      /\ \A p \in Ports : /\ port'[p].connected = port[p].connected /\ port'[p].intf = port[p].intf
                          /\ port'[p].addr = IF p = cur.port THEN cur.addr ELSE port[p].addr
                          /\ p # cur.port => port'[p] = port[p]
  BY <1>1, <1>3 DEF TypeOK, PortRec
<1>5. PortInv'
  <2>1. port[cur.port].connected
    BY <1>1 DEF PortInv
  <2>2. \A p \in Ports : ~port'[p].connected => port'[p] = Unplugged
    BY <1>3, <1>4, <2>1 DEF PortInv
  <2>3. QED BY <1>1, <1>2, <1>3, <1>4, <2>1, <2>2 DEF PortInv
<1>6. VarType'
  BY <1>1, <1>4, TypeForm DEF VarType
<1>7. AddrInv'
  <2>1. cur.addr # 0 /\ cur.addr \notin leaked /\ port[cur.port].addr = 0
    BY <1>1 DEF AddrInv, PortInv
  <2>2. \A p \in Ports : port[p].addr # cur.addr
    BY <1>1, <2>1 DEF AddrInv, HasAddr
  <2>3. \A p, q \in Ports : HasAddr(p)' /\ port'[p].addr = port'[q].addr => p = q
    BY <1>4, <2>2 DEF AddrInv, HasAddr
  <2>4. \A a \in Addrs : (\E p \in Ports : port'[p].addr = a)
                           <=> (\E p \in Ports : port[p].addr = a) \/ cur.addr = a
    <3>1. 0 \notin Addrs
      BY EnumAssumption DEF Addrs
    <3>2. QED BY <1>3, <1>4, <2>1, <3>1
  <2>5. \A p \in Ports : HasAddr(p)' => port'[p].addr \notin leaked
    BY <1>4, <2>1 DEF AddrInv, HasAddr
  <2>6. \A a \in Addrs : a \in alloctab' <=> (\E p \in Ports : port'[p].addr = a) \/ a \in leaked'
    BY <1>1, <2>4 DEF AddrInv
  <2>7. QED BY <1>1, <1>2, <2>3, <2>5, <2>6 DEF AddrInv
<1>8. ClassInv' /\ HubInv' /\ InUse' = InUse
  BY <1>1, <1>4, SameIntf DEF classVars, TypeOK
<1>9. ResourceInv'
  BY <1>1, <1>2, <1>8 DEF ResourceInv
<1>10. QED BY <1>2, <1>5, <1>6, <1>7, <1>8, <1>9, TypeForm

\* The interfaces are cleared; none of them had a class instance.
LEMMA ConfigInv ==
  ASSUME IInv, ConfigArrives
  PROVE  IInv'
<1> USE DEF IInv
<1> DEFINE blank == [i \in DOMAIN cur.dev |-> [drv |-> "none", priv |-> NoPriv, name |-> FALSE]]
<1>1. /\ cur.pc = "cfg" /\ cur' = [cur EXCEPT !.pc = "setcfg"]
      /\ port' = [port EXCEPT ![cur.port].intf = blank]
      /\ heap' = heap \union {cur.port}
      /\ UNCHANGED <<next, alloctab, devinuse, hub, rndis, running, mutexes, leaked>>
  BY DEF ConfigArrives
<1>2. /\ cur.port \in Ports /\ cur.dev \in Devices /\ Len(cur.dev) \in Nat
      /\ DOMAIN cur.dev = 1..Len(cur.dev) /\ Len(cur.dev) <= 8
  BY <1>1, EnumAssumption DEF CurType, PortInv
<1>3. /\ blank \in Seq(Intf) /\ Len(blank) = Len(cur.dev) /\ DOMAIN blank = 1..Len(cur.dev)
      /\ \A j \in 1..Len(cur.dev) : blank[j].priv = NoPriv /\ blank[j].drv = "none"
  <2>1. [drv |-> "none", priv |-> NoPriv, name |-> FALSE] \in Intf
    BY EnumAssumption DEF Intf, NoPriv
  <2>2. blank \in [1..Len(cur.dev) -> Intf]
    BY <1>2, <2>1
  <2>3. blank \in Seq(Intf) /\ Len(blank) = Len(cur.dev) /\ DOMAIN blank = 1..Len(cur.dev)
    BY <1>2, <2>2, FunctionSeq
  <2>4. \A j \in 1..Len(cur.dev) : blank[j] = [drv |-> "none", priv |-> NoPriv, name |-> FALSE]
    BY <1>2
  <2>5. QED BY <2>3, <2>4
<1> HIDE DEF blank
<1>4. CurType' /\ cur'.pc = "setcfg" /\ cur'.port = cur.port /\ cur'.dev = cur.dev
  BY <1>1 DEF CurType, Pcs
<1>5. /\ port' \in [Ports -> PortRec]
      /\ \A p \in Ports : /\ port'[p].connected = port[p].connected /\ port'[p].addr = port[p].addr
                          /\ port'[p].intf = IF p = cur.port THEN blank ELSE port[p].intf
                          /\ p # cur.port => port'[p] = port[p]
  BY <1>1, <1>2, <1>3 DEF TypeOK, PortRec
<1>6. PortInv'
  <2>1. port[cur.port].connected
    BY <1>1 DEF PortInv
  <2>2. \A p \in Ports : ~port'[p].connected => port'[p] = Unplugged
    BY <1>2, <1>5, <2>1 DEF PortInv
  <2>3. QED BY <1>1, <1>2, <1>3, <1>4, <1>5, <2>1, <2>2 DEF PortInv
<1>7. VarType'
  BY <1>1, <1>2, <1>5, TypeForm DEF VarType
<1>8. AddrInv'
  BY <1>1, <1>4, <1>5, SameAddr
<1>9. port[cur.port].intf = <<>>
  BY <1>1 DEF PortInv
<1>10. \A p \in Ports : \A i, d, n : d # "none" => (Has(p, i, d, n)' <=> Has(p, i, d, n))
  BY <1>3, <1>5, <1>9 DEF Has
<1>11. ClassInv'
  <2>1. \A p \in Ports : Len(port'[p].intf) <= MaxInterfaces
    BY <1>2, <1>3, <1>5 DEF ClassInv, MaxInterfaces
  <2>2. \A d \in Pooled : d # "none"
    BY DEF Pooled
  <2>3. \A p \in Ports, i \in 1..MaxInterfaces, n \in 0..NAcm :
          Has(p, i, "acm", n)' => port'[p].intf[i].name
    <3>1. ASSUME NEW p \in Ports, NEW i \in 1..MaxInterfaces, NEW n \in 0..NAcm,
                 Has(p, i, "acm", n)'
          PROVE  port'[p].intf[i].name
      <4>1. Has(p, i, "acm", n)
        BY <1>10, <3>1
      <4>2. p # cur.port
        BY <1>9, <4>1 DEF Has
      <4>3. QED BY <1>5, <4>1, <4>2 DEF ClassInv
    <3>2. QED BY <3>1
  <2>4. rndis # -1 => rndis \in Ports
    BY DEF TypeOK
  <2>5. QED BY <1>1, <1>10, <2>1, <2>2, <2>3, <2>4 DEF ClassInv
<1>12. HubInv' /\ InUse' = InUse
  <2>1. \A p \in Ports : HasHub(p)' <=> HasHub(p)
    BY <1>3, <1>5, <1>9 DEF HasHub, NoPriv
  <2>2. 0 \in Ports
    BY EnumAssumption DEF Ports
  <2>3. InUse' = InUse
    BY <1>5 DEF InUse
  <2>4. QED BY <1>1, <1>5, <2>1, <2>2, <2>3 DEF HubInv
<1>13. ResourceInv'
  BY <1>1, <1>4, <1>12 DEF ResourceInv
<1>14. QED BY <1>4, <1>6, <1>7, <1>8, <1>11, <1>12, <1>13, TypeForm

-----------------------------------------------------------------------------
(* The class drivers.                                                      *)

\* Interface k of the port c, which had no class instance, now has drv's
\* instance priv (or none, when that is NoPriv).
NewInterface(c, k, drv, priv) ==
  /\ c \in Ports /\ k \in 1..MaxInterfaces /\ port[c].connected
  /\ port' \in [Ports -> PortRec]
  /\ \A p \in Ports : Len(port'[p].intf) <= MaxInterfaces
  /\ \A p \in Ports : port'[p].connected = port[p].connected
  /\ \A p \in Ports : \A i, d, n : n # NoPriv =>
       (Has(p, i, d, n)' <=> Has(p, i, d, n) \/ (p = c /\ i = k /\ d = drv /\ n = priv))
  /\ \A p \in Ports : \A i, d, n : Has(p, i, d, n) /\ n # NoPriv => ~(p = c /\ i = k)
  /\ \A p \in Ports : \A i : ~(p = c /\ i = k) => port'[p].intf[i] = port[p].intf[i]

\* What the call of a connect handler changes for the port: one interface,
\* which had no class instance before.
LEMMA ConnectStep ==
  ASSUME IInv, NEW drv \in {"hub", "acm", "data", "rndis"}, NEW priv \in -1..NAcm,
         NEW name \in BOOLEAN, NEW ret \in {-1, 0}, Loading(drv), Connect(drv, priv, name, ret)
  PROVE  /\ CurType' /\ PortInv' /\ AddrInv' /\ ResourceInv' /\ InUse' = InUse
         /\ UNCHANGED <<next, alloctab, heap, mutexes, leaked>>
         /\ cur' = [cur EXCEPT !.i = cur.i + 1, !.ret = ret]
         /\ NewInterface(cur.port, cur.i, drv, priv)
         /\ port'[cur.port].intf[cur.i].name = name
<1> USE DEF IInv
<1> DEFINE c == cur.port
           k == cur.i
           r == [drv |-> drv, priv |-> priv, name |-> name]
           f == [port[cur.port].intf EXCEPT ![cur.i] = r]
<1>1. /\ cur.pc = "load" /\ k \in DOMAIN cur.dev
      /\ cur' = [cur EXCEPT !.i = cur.i + 1, !.ret = ret]
      /\ port' = [port EXCEPT ![c].intf = f]
      /\ UNCHANGED <<next, alloctab, heap, mutexes, leaked>>
  BY DEF Loading, Connect
<1>2. /\ c \in Ports /\ cur.dev \in Devices /\ Len(cur.dev) \in Nat /\ DOMAIN cur.dev = 1..Len(cur.dev)
      /\ Len(cur.dev) <= 8 /\ port[c].connected /\ Len(port[c].intf) = Len(cur.dev)
  BY <1>1, EnumAssumption DEF CurType, PortInv
<1>3. port[c].intf \in Seq(Intf) /\ DOMAIN port[c].intf = 1..Len(cur.dev) /\ r \in Intf
  BY <1>2, PortFields DEF Intf
<1>4. /\ f \in Seq(Intf) /\ Len(f) = Len(cur.dev) /\ DOMAIN f = 1..Len(cur.dev)
      /\ f[k] = r /\ \A j : j # k => f[j] = port[c].intf[j]
  BY <1>1, <1>2, <1>3
<1>5. r.drv = drv /\ r.priv = priv /\ r.name = name
  OBVIOUS
<1> HIDE DEF f, r
<1>6. /\ port' \in [Ports -> PortRec]
      /\ \A p \in Ports : /\ port'[p].connected = port[p].connected /\ port'[p].addr = port[p].addr
                          /\ port'[p].intf = IF p = c THEN f ELSE port[p].intf
                          /\ p # c => port'[p] = port[p]
  <2>1. port \in [Ports -> PortRec] /\ c \in Ports /\ f \in Seq(Intf) /\ port' = [port EXCEPT ![c].intf = f]
    BY <1>1, <1>2, <1>4 DEF TypeOK, PortRec
  <2> HIDE DEF c, IInv
  <2>2. QED BY <2>1 DEF PortRec
<1>7. /\ CurType' /\ cur'.pc = "load" /\ cur'.i = k + 1 /\ cur'.port = c /\ cur'.dev = cur.dev
  <2>1. k \in Nat /\ k + 1 \in Nat
    BY DEF CurType
  <2>2. cur' = [cur EXCEPT !.i = k + 1, !.ret = ret]
    BY <1>1
  <2> HIDE DEF k
  <2>3. QED BY <1>1, <2>1, <2>2 DEF CurType, Pcs
<1>8. k \in 1..Len(cur.dev) /\ k \in 1..MaxInterfaces
  <2>1. k \in 1..Len(cur.dev)
    BY <1>1, <1>2
  <2>2. Len(cur.dev) <= MaxInterfaces
    BY <1>2 DEF MaxInterfaces
  <2>3. QED BY <1>2, <2>1, <2>2, InterfaceNumber
<1>9. PortInv'
  <2>1. \A p \in Ports : ~port'[p].connected => port'[p] = Unplugged
    BY <1>2, <1>6 DEF PortInv
  <2>2. k + 1 \in 1..(Len(cur.dev) + 1) /\ \A j \in (k + 1)..Len(cur.dev) : j \in k..Len(cur.dev) /\ j # k
    BY <1>2, <1>8
  <2>3. \A j \in (k + 1)..Len(cur.dev) : f[j].priv = NoPriv
    BY <1>1, <1>4, <2>2 DEF PortInv
  <2>4. QED BY <1>2, <1>4, <1>6, <1>7, <2>1, <2>2, <2>3 DEF PortInv
<1>10. AddrInv'
  BY <1>1, <1>6, <1>7, SameAddr
<1>11. InUse' = InUse
  BY <1>6 DEF InUse
<1>12. ResourceInv'
  BY <1>1, <1>7, <1>11 DEF ResourceInv
<1>13. port[c].intf[k].priv = NoPriv
  BY <1>1, <1>2, <1>8 DEF PortInv
<1>14. \A p \in Ports : \A i, d, n : Has(p, i, d, n) /\ n # NoPriv => ~(p = c /\ i = k)
  BY <1>13 DEF Has
<1>15. \A p \in Ports : \A i, d, n : n # NoPriv =>
         (Has(p, i, d, n)' <=> Has(p, i, d, n) \/ (p = c /\ i = k /\ d = drv /\ n = priv))
  <2>1. ASSUME NEW p \in Ports, p # c PROVE \A i, d, n : Has(p, i, d, n)' <=> Has(p, i, d, n)
    BY <1>6, <2>1 DEF Has
  <2>2. ASSUME NEW p \in Ports, p = c
        PROVE  \A i, d, n : n # NoPriv =>
                 (Has(p, i, d, n)' <=> Has(p, i, d, n) \/ (i = k /\ d = drv /\ n = priv))
    <3>1. \A i, d, n : Has(p, i, d, n)' <=> i \in DOMAIN f /\ f[i].drv = d /\ f[i].priv = n
      BY <1>6, <2>2 DEF Has
    <3>2. \A i, d, n : Has(p, i, d, n) <=>
            i \in 1..Len(cur.dev) /\ port[c].intf[i].drv = d /\ port[c].intf[i].priv = n
      BY <1>3, <2>2 DEF Has
    <3>3. \A i : i # k => f[i] = port[c].intf[i]
      BY <1>4
    <3>4. f[k].drv = drv /\ f[k].priv = priv /\ DOMAIN f = 1..Len(cur.dev)
      BY <1>4, <1>5
    <3> HIDE DEF IInv, c, k
    <3>5. QED BY <1>8, <1>13, <3>1, <3>2, <3>3, <3>4
  <2>3. QED BY <2>1, <2>2
<1>16. \A p \in Ports : Len(port'[p].intf) <= MaxInterfaces
  BY <1>2, <1>4, <1>6 DEF ClassInv, MaxInterfaces
<1>17. \A p \in Ports : \A i : ~(p = c /\ i = k) => port'[p].intf[i] = port[p].intf[i]
  BY <1>4, <1>6
<1>18. port'[c].intf[k].name = name
  BY <1>2, <1>4, <1>5, <1>6
<1>19. QED
  BY <1>1, <1>2, <1>6, <1>7, <1>8, <1>9, <1>10, <1>11, <1>12, <1>14, <1>15, <1>16, <1>17, <1>18
     DEF NewInterface

\* Which ports have a hub, and which instances there are, after a connect
\* handler: the new one, if there is one.
LEMMA NewInstance ==
  ASSUME NEW c, NEW k, NEW drv, NEW priv \in -1..NAcm,
         NewInterface(c, k, drv, priv)
  PROVE  /\ \A p \in Ports : HasHub(p)' <=>
              HasHub(p) \/ (p = c /\ drv = "hub" /\ priv # NoPriv)
         /\ \A p \in Ports : \A i, d : \A n \in 0..NAcm : Has(p, i, d, n)' <=>
              Has(p, i, d, n) \/ (p = c /\ i = k /\ d = drv /\ n = priv)
         /\ \A p \in Ports : \A i, d : \A n \in 0..NAcm :
              Has(p, i, d, n) => port'[p].intf[i] = port[p].intf[i]
         /\ \A p \in Ports : \A i, d : \A n \in 0..NAcm : Has(p, i, d, n) => ~(p = c /\ i = k)
<1>1. \A n \in 0..NAcm : n # NoPriv
  BY EnumAssumption DEF NoPriv
<1>2. \A p \in Ports : HasHub(p) <=> port[p].connected /\ \E i, n : n # NoPriv /\ Has(p, i, "hub", n)
  BY DEF HasHub, Has
<1>3. \A p \in Ports : HasHub(p)' <=> port'[p].connected /\ \E i, n : n # NoPriv /\ Has(p, i, "hub", n)'
  BY DEF HasHub, Has, NoPriv
<1>4. \A p \in Ports : HasHub(p)' <=> HasHub(p) \/ (p = c /\ drv = "hub" /\ priv # NoPriv)
  <2>1. ASSUME NEW p \in Ports PROVE HasHub(p)' <=> HasHub(p) \/ (p = c /\ drv = "hub" /\ priv # NoPriv)
    <3>1. ASSUME HasHub(p)' PROVE HasHub(p) \/ (p = c /\ drv = "hub" /\ priv # NoPriv)
      BY <1>2, <1>3, <3>1 DEF NewInterface
    <3>2. ASSUME HasHub(p) PROVE HasHub(p)'
      BY <1>2, <1>3, <3>2 DEF NewInterface
    <3>3. ASSUME p = c, drv = "hub", priv # NoPriv PROVE HasHub(p)'
      BY <1>2, <1>3, <3>3 DEF NewInterface
    <3>4. QED BY <3>1, <3>2, <3>3
  <2>2. QED BY <2>1
<1>5. QED BY <1>1, <1>4 DEF NewInterface

\* A driver without instances, or whose pool is empty.
LEMMA DataInv ==
  ASSUME IInv, usbh_cdc_data_connect \/ \E drv \in Pooled : PoolEmpty(drv)
  PROVE  IInv'
<1> USE DEF IInv
<1>1. PICK drv \in {"hub", "acm", "data", "rndis"}, ret \in {-1, 0} :
        Loading(drv) /\ Connect(drv, NoPriv, FALSE, ret) /\ UNCHANGED classVars
  BY DEF usbh_cdc_data_connect, PoolEmpty, Pooled
<1>2. NoPriv \in -1..NAcm /\ NoPriv \notin 0..NAcm
  BY EnumAssumption DEF NoPriv
<1>3. PICK c, k : /\ CurType' /\ PortInv' /\ AddrInv' /\ ResourceInv' /\ InUse' = InUse
                  /\ UNCHANGED <<next, alloctab, heap, mutexes, leaked>>
                  /\ NewInterface(c, k, drv, NoPriv)
  BY <1>1, <1>2, ConnectStep
<1>4. UNCHANGED <<devinuse, hub, rndis, running>>
  BY <1>1 DEF classVars
<1>5. /\ \A p \in Ports : HasHub(p)' <=> HasHub(p)
      /\ \A p \in Ports : \A i, d : \A n \in 0..NAcm : Has(p, i, d, n)' <=> Has(p, i, d, n)
      /\ \A p \in Ports : \A i, d : \A n \in 0..NAcm :
           Has(p, i, d, n) => port'[p].intf[i] = port[p].intf[i]
  <2>1. /\ \A p \in Ports : HasHub(p)' <=> HasHub(p) \/ (p = c /\ drv = "hub" /\ NoPriv # NoPriv)
        /\ \A p \in Ports : \A i, d : \A n \in 0..NAcm : Has(p, i, d, n)' <=>
             Has(p, i, d, n) \/ (p = c /\ i = k /\ d = drv /\ n = NoPriv)
        /\ \A p \in Ports : \A i, d : \A n \in 0..NAcm :
             Has(p, i, d, n) => port'[p].intf[i] = port[p].intf[i]
        /\ \A p \in Ports : \A i, d : \A n \in 0..NAcm : Has(p, i, d, n) => ~(p = c /\ i = k)
    BY <1>2, <1>3, NewInstance
  <2>2. QED BY <1>2, <2>1
<1>6. ClassInv'
  <2>1. rndis # -1 => rndis \in Ports
    BY DEF TypeOK
  <2>2. \A p \in Ports, i \in 1..MaxInterfaces, n \in 0..NAcm : Has(p, i, "acm", n)' => port'[p].intf[i].name
    BY <1>5 DEF ClassInv
  <2>3. \A p \in Ports : Len(port'[p].intf) <= MaxInterfaces
    BY <1>3 DEF NewInterface
  <2>4. QED BY <1>4, <1>5, <2>1, <2>2, <2>3 DEF ClassInv, Pooled
<1>7. HubInv'
  <2>1. 0 \in Ports
    BY EnumAssumption DEF Ports
  <2>2. QED BY <1>3, <1>4, <1>5, <2>1 DEF HubInv, NewInterface
<1>8. VarType'
  BY <1>3, <1>4, TypeForm DEF VarType, NewInterface
<1>9. QED BY <1>3, <1>6, <1>7, <1>8, TypeForm

\* usbh_rndis_connect takes the one instance over.
LEMMA RndisInv ==
  ASSUME IInv, NEW ok \in BOOLEAN, usbh_rndis_connect(ok)
  PROVE  IInv'
<1> USE DEF IInv
<1>1. PICK ret \in {-1, 0} :
        /\ Loading("rndis") /\ Connect("rndis", 0, ok, ret)
        /\ rndis' = cur.port
        /\ running' = IF ok THEN running \union {<<"rndis", 0>>} ELSE running
        /\ UNCHANGED <<devinuse, hub>>
  BY DEF usbh_rndis_connect
<1>2. 0 \in -1..NAcm /\ 0 \in 0..NAcm
  BY EnumAssumption
<1>3. PICK c, k : /\ CurType' /\ PortInv' /\ AddrInv' /\ ResourceInv' /\ InUse' = InUse
                  /\ UNCHANGED <<next, alloctab, heap, mutexes, leaked>>
                  /\ NewInterface(c, k, "rndis", 0) /\ c = cur.port
  BY <1>1, <1>2, ConnectStep
<1>4. /\ \A p \in Ports : HasHub(p)' <=> HasHub(p)
      /\ \A p \in Ports : \A i, d : \A n \in 0..NAcm :
           Has(p, i, d, n)' <=> Has(p, i, d, n) \/ (p = c /\ i = k /\ d = "rndis" /\ n = 0)
      /\ \A p \in Ports : \A i, d : \A n \in 0..NAcm :
           Has(p, i, d, n) => port'[p].intf[i] = port[p].intf[i]
  <2>1. /\ \A p \in Ports : HasHub(p)' <=> HasHub(p) \/ (p = c /\ "rndis" = "hub" /\ 0 # NoPriv)
        /\ \A p \in Ports : \A i, d : \A n \in 0..NAcm : Has(p, i, d, n)' <=>
             Has(p, i, d, n) \/ (p = c /\ i = k /\ d = "rndis" /\ n = 0)
        /\ \A p \in Ports : \A i, d : \A n \in 0..NAcm :
             Has(p, i, d, n) => port'[p].intf[i] = port[p].intf[i]
        /\ \A p \in Ports : \A i, d : \A n \in 0..NAcm : Has(p, i, d, n) => ~(p = c /\ i = k)
    BY <1>2, <1>3, NewInstance
  <2>2. QED BY <1>2, <2>1
<1>5. \A p \in Ports : \A i, d : \A n \in 0..NAcm : d # "rndis" => (Has(p, i, d, n)' <=> Has(p, i, d, n))
  BY <1>4
<1>6. c \in Ports /\ k \in 1..MaxInterfaces /\ Has(c, k, "rndis", 0)'
  BY <1>2, <1>3, <1>4 DEF NewInterface
<1>7. ClassInv'
  <2>1. \A p \in Ports, i \in 1..MaxInterfaces, n \in 0..NAcm : Has(p, i, "acm", n)' => port'[p].intf[i].name
    BY <1>4, <1>5 DEF ClassInv
  <2>2. \A p \in Ports : Len(port'[p].intf) <= MaxInterfaces
    BY <1>3 DEF NewInterface
  <2>3. \A d \in Pooled : d # "rndis"
    BY DEF Pooled
  <2>4. running' \subseteq {"acm", "rndis"} \X (0..NAcm)
        /\ \A n \in 0..NAcm : <<"acm", n>> \in running' <=> <<"acm", n>> \in running
    BY <1>1, <1>2 DEF ClassInv
  <2>5. \E i \in 1..MaxInterfaces, n \in 0..NAcm : Has(rndis, i, "rndis", n)'
    BY <1>1, <1>2, <1>3, <1>6 DEF Has
  <2>6. /\ \A d \in Pooled, n \in 0..NAcm :
             n \in devinuse'[d] <=> \E p \in Ports, i \in 1..MaxInterfaces : Has(p, i, d, n)'
        /\ \A d \in Pooled, p, q \in Ports, i, j \in 1..MaxInterfaces, n \in 0..NAcm :
             Has(p, i, d, n)' /\ Has(q, j, d, n)' => p = q /\ i = j
    BY <1>1, <1>5, <2>3 DEF ClassInv
  <2>7. \A n \in 0..NAcm :
          <<"acm", n>> \in running' <=> \E p \in Ports, i \in 1..MaxInterfaces : Has(p, i, "acm", n)'
    <3>1. \A p \in Ports : \A i : \A n \in 0..NAcm : Has(p, i, "acm", n)' <=> Has(p, i, "acm", n)
      BY <1>5
    <3>2. QED BY <2>4, <3>1 DEF ClassInv
  <2>8. devinuse'["hub"] \subseteq {0}
    BY <1>1 DEF ClassInv
  <2>9. QED BY <2>1, <2>2, <2>4, <2>5, <2>6, <2>7, <2>8 DEF ClassInv
<1>8. HubInv'
  <2>1. 0 \in Ports
    BY EnumAssumption DEF Ports
  <2>2. QED BY <1>1, <1>3, <1>4, <2>1 DEF HubInv, NewInterface
<1>9. VarType'
  BY <1>1, <1>3, <1>6, TypeForm DEF VarType, NewInterface
<1>10. QED BY <1>3, <1>7, <1>8, <1>9, TypeForm

\* usbh_cdc_acm_connect: an instance that no interface refers to.
LEMMA AcmInv ==
  ASSUME IInv, usbh_cdc_acm_connect
  PROVE  IInv'
<1> USE DEF IInv
<1>1. PICK m \in 0..NAcm :
        /\ m \notin devinuse["acm"]
        /\ Loading("acm") /\ Connect("acm", m, TRUE, 0)
        /\ devinuse' = [devinuse EXCEPT !["acm"] = @ \union {m}]
        /\ running' = running \union {<<"acm", m>>}
        /\ UNCHANGED <<hub, rndis>>
  <2> DEFINE F == FreeInstances("acm")
  <2>1. F = (0..(NAcm - 1)) \ devinuse["acm"]
    BY DEF FreeInstances, PoolSize
  <2>2. F \subseteq Nat /\ F \subseteq 0..NAcm /\ F # {}
    BY <2>1, EnumAssumption DEF usbh_cdc_acm_connect
  <2>3. Min(F) \in F
    BY <2>2, MinLeast
  <2>4. Min(F) \in 0..NAcm /\ Min(F) \notin devinuse["acm"]
    BY <2>1, <2>2, <2>3
  <2>5. QED BY <2>4 DEF usbh_cdc_acm_connect
<1>2. m \in -1..NAcm /\ 0 \in {-1, 0} /\ TRUE \in BOOLEAN
  OBVIOUS
<1>3. PICK c, k : /\ CurType' /\ PortInv' /\ AddrInv' /\ ResourceInv' /\ InUse' = InUse
                  /\ UNCHANGED <<next, alloctab, heap, mutexes, leaked>>
                  /\ NewInterface(c, k, "acm", m) /\ port'[c].intf[k].name = TRUE
  BY <1>1, <1>2, ConnectStep
<1>4. /\ \A p \in Ports : HasHub(p)' <=> HasHub(p)
      /\ \A p \in Ports : \A i, d : \A n \in 0..NAcm :
           Has(p, i, d, n)' <=> Has(p, i, d, n) \/ (p = c /\ i = k /\ d = "acm" /\ n = m)
      /\ \A p \in Ports : \A i, d : \A n \in 0..NAcm :
           Has(p, i, d, n) => port'[p].intf[i] = port[p].intf[i]
  <2>1. /\ \A p \in Ports : HasHub(p)' <=> HasHub(p) \/ (p = c /\ "acm" = "hub" /\ m # NoPriv)
        /\ \A p \in Ports : \A i, d : \A n \in 0..NAcm : Has(p, i, d, n)' <=>
             Has(p, i, d, n) \/ (p = c /\ i = k /\ d = "acm" /\ n = m)
        /\ \A p \in Ports : \A i, d : \A n \in 0..NAcm :
             Has(p, i, d, n) => port'[p].intf[i] = port[p].intf[i]
        /\ \A p \in Ports : \A i, d : \A n \in 0..NAcm : Has(p, i, d, n) => ~(p = c /\ i = k)
    BY <1>2, <1>3, NewInstance
  <2>2. QED BY <1>2, <2>1
<1>5. c \in Ports /\ k \in 1..MaxInterfaces
  BY <1>3 DEF NewInterface
<1>6. \A p \in Ports, i \in 1..MaxInterfaces : ~Has(p, i, "acm", m)
  BY <1>1 DEF ClassInv, Pooled
<1>7. /\ devinuse'["acm"] = devinuse["acm"] \union {m} /\ devinuse'["hub"] = devinuse["hub"]
      /\ devinuse' \in [Pooled -> SUBSET (0..NAcm)]
  BY <1>1 DEF TypeOK, Pooled
<1>8. ClassInv'
  <2>1. \A p \in Ports, i \in 1..MaxInterfaces, n \in 0..NAcm : Has(p, i, "acm", n)' => port'[p].intf[i].name
    BY <1>3, <1>4 DEF ClassInv
  <2>2. \A p \in Ports : Len(port'[p].intf) <= MaxInterfaces
    BY <1>3 DEF NewInterface
  <2>3. running' \subseteq {"acm", "rndis"} \X (0..NAcm)
        /\ \A n \in 0..NAcm : <<"acm", n>> \in running' <=> <<"acm", n>> \in running \/ n = m
    BY <1>1 DEF ClassInv
  <2>4. rndis' # -1 => \E i \in 1..MaxInterfaces, n \in 0..NAcm : Has(rndis, i, "rndis", n)'
    <3>1. SUFFICES ASSUME rndis # -1
                   PROVE  \E i \in 1..MaxInterfaces, n \in 0..NAcm : Has(rndis, i, "rndis", n)'
      BY <1>1
    <3>2. PICK r \in Ports : r = rndis
      BY <3>1 DEF TypeOK
    <3>3. \E i \in 1..MaxInterfaces, n \in 0..NAcm : Has(r, i, "rndis", n)'
      BY <1>4, <3>1, <3>2 DEF ClassInv
    <3>4. QED BY <1>1, <3>2, <3>3 DEF Has
  <2>5. ASSUME NEW d \in Pooled, NEW n \in 0..NAcm
        PROVE  n \in devinuse'[d] <=> \E p \in Ports, i \in 1..MaxInterfaces : Has(p, i, d, n)'
    <3>1. n \in devinuse[d] <=> \E p \in Ports, i \in 1..MaxInterfaces : Has(p, i, d, n)
      BY DEF ClassInv
    <3>2. n \in devinuse'[d] <=> n \in devinuse[d] \/ (d = "acm" /\ n = m)
      BY <1>7 DEF Pooled
    <3>3. QED BY <1>4, <1>5, <3>1, <3>2
  <2>6. ASSUME NEW d \in Pooled, NEW p \in Ports, NEW q \in Ports, NEW i \in 1..MaxInterfaces,
               NEW j \in 1..MaxInterfaces, NEW n \in 0..NAcm, Has(p, i, d, n)', Has(q, j, d, n)'
        PROVE  p = q /\ i = j
    <3>1. Has(p, i, d, n) \/ (p = c /\ i = k /\ d = "acm" /\ n = m)
      BY <1>4, <2>6
    <3>2. Has(q, j, d, n) \/ (q = c /\ j = k /\ d = "acm" /\ n = m)
      BY <1>4, <2>6
    <3>3. Has(p, i, d, n) /\ Has(q, j, d, n) => p = q /\ i = j
      BY DEF ClassInv
    <3>4. QED BY <1>6, <3>1, <3>2, <3>3
  <2>7. ASSUME NEW n \in 0..NAcm
        PROVE  <<"acm", n>> \in running' <=> \E p \in Ports, i \in 1..MaxInterfaces : Has(p, i, "acm", n)'
    <3>1. <<"acm", n>> \in running <=> \E p \in Ports, i \in 1..MaxInterfaces : Has(p, i, "acm", n)
      BY DEF ClassInv
    <3>2. QED BY <1>4, <1>5, <2>3, <3>1
  <2>8. devinuse'["hub"] \subseteq {0}
    BY <1>7 DEF ClassInv
  <2>9. QED BY <2>1, <2>2, <2>3, <2>4, <2>5, <2>6, <2>7, <2>8 DEF ClassInv
<1>9. HubInv'
  <2>1. 0 \in Ports
    BY EnumAssumption DEF Ports
  <2>2. QED BY <1>1, <1>3, <1>4, <2>1 DEF HubInv, NewInterface
<1>10. VarType'
  BY <1>1, <1>3, <1>7, TypeForm DEF VarType, NewInterface
<1>11. QED BY <1>3, <1>8, <1>9, <1>10, TypeForm

\* usbh_hub_connect: its one instance is free, so no port has a hub, and the
\* port cannot be one of the external hub.
LEMMA HubConnectInv ==
  ASSUME IInv, NEW outcome \in {"request", "timer", "ok"}, usbh_hub_connect(outcome)
  PROVE  IInv'
<1> USE DEF IInv
<1>1. PICK name \in BOOLEAN, ret \in {-1, 0} :
        /\ 0 \notin devinuse["hub"]
        /\ Loading("hub") /\ Connect("hub", 0, name, ret)
        /\ devinuse' = [devinuse EXCEPT !["hub"] = @ \union {0}]
        /\ hub' \in [connected : BOOLEAN, timer : BOOLEAN]
        /\ UNCHANGED <<rndis, running>>
  <2>1. FreeInstances("hub") = {0} \ devinuse["hub"]
    BY DEF FreeInstances, PoolSize
  <2>2. 0 \notin devinuse["hub"]
    BY <2>1 DEF usbh_hub_connect
  <2>3. hub' \in [connected : BOOLEAN, timer : BOOLEAN]
    BY DEF usbh_hub_connect
  <2>4. QED BY <2>2, <2>3 DEF usbh_hub_connect
<1>2. 0 \in -1..NAcm /\ 0 \in 0..NAcm /\ NoPriv # 0
  BY EnumAssumption DEF NoPriv
<1>3. PICK c, k : /\ CurType' /\ PortInv' /\ AddrInv' /\ ResourceInv' /\ InUse' = InUse
                  /\ UNCHANGED <<next, alloctab, heap, mutexes, leaked>>
                  /\ NewInterface(c, k, "hub", 0)
  BY <1>1, <1>2, ConnectStep
<1>4. /\ \A p \in Ports : HasHub(p)' <=> HasHub(p) \/ p = c
      /\ \A p \in Ports : \A i, d : \A n \in 0..NAcm :
           Has(p, i, d, n)' <=> Has(p, i, d, n) \/ (p = c /\ i = k /\ d = "hub" /\ n = 0)
      /\ \A p \in Ports : \A i, d : \A n \in 0..NAcm :
           Has(p, i, d, n) => port'[p].intf[i] = port[p].intf[i]
  <2>1. /\ \A p \in Ports : HasHub(p)' <=> HasHub(p) \/ (p = c /\ "hub" = "hub" /\ 0 # NoPriv)
        /\ \A p \in Ports : \A i, d : \A n \in 0..NAcm : Has(p, i, d, n)' <=>
             Has(p, i, d, n) \/ (p = c /\ i = k /\ d = "hub" /\ n = 0)
        /\ \A p \in Ports : \A i, d : \A n \in 0..NAcm :
             Has(p, i, d, n) => port'[p].intf[i] = port[p].intf[i]
        /\ \A p \in Ports : \A i, d : \A n \in 0..NAcm : Has(p, i, d, n) => ~(p = c /\ i = k)
    BY <1>2, <1>3, NewInstance
  <2>2. QED BY <1>2, <2>1
<1>5. c \in Ports /\ k \in 1..MaxInterfaces /\ port[c].connected
  BY <1>3 DEF NewInterface
<1>6. \A p \in Ports, i \in 1..MaxInterfaces, n \in 0..NAcm : ~Has(p, i, "hub", n)
  <2>1. ASSUME NEW n \in 0..NAcm PROVE n \notin devinuse["hub"]
    BY <1>1 DEF ClassInv
  <2>2. QED BY <2>1 DEF ClassInv, Pooled
<1>7. \A p \in Ports : ~HasHub(p)
  <2>1. ASSUME NEW p \in Ports, HasHub(p) PROVE FALSE
    <3>1. PICK i \in DOMAIN port[p].intf : port[p].intf[i].drv = "hub" /\ port[p].intf[i].priv # NoPriv
      BY <2>1 DEF HasHub
    <3>2. /\ DOMAIN port[p].intf = 1..Len(port[p].intf) /\ Len(port[p].intf) \in Nat
          /\ port[p].intf[i].priv \in -1..NAcm
      BY <3>1, PortFields
    <3>3. i \in 1..MaxInterfaces
      <4>1. Len(port[p].intf) <= MaxInterfaces
        BY DEF ClassInv
      <4>2. QED BY <3>2, <4>1, InterfaceNumber
    <3>4. port[p].intf[i].priv \in 0..NAcm
      BY <3>1, <3>2 DEF NoPriv
    <3>5. QED BY <1>6, <3>1, <3>3, <3>4 DEF Has
  <2>2. QED BY <2>1
<1>8. c = 0
  BY <1>5, <1>7, EnumAssumption DEF HubInv, Ports
<1>9. /\ devinuse'["hub"] = devinuse["hub"] \union {0} /\ devinuse'["acm"] = devinuse["acm"]
      /\ devinuse' \in [Pooled -> SUBSET (0..NAcm)]
  BY <1>1, <1>2 DEF TypeOK, Pooled
<1>10. ClassInv'
  <2>1. \A p \in Ports, i \in 1..MaxInterfaces, n \in 0..NAcm : Has(p, i, "acm", n)' => port'[p].intf[i].name
    <3>1. ASSUME NEW p \in Ports, NEW i \in 1..MaxInterfaces, NEW n \in 0..NAcm, Has(p, i, "acm", n)'
          PROVE  port'[p].intf[i].name
      <4>1. Has(p, i, "acm", n)
        BY <1>4, <3>1
      <4>2. QED BY <1>4, <4>1 DEF ClassInv
    <3>2. QED BY <3>1
  <2>2. \A p \in Ports : Len(port'[p].intf) <= MaxInterfaces
    BY <1>3 DEF NewInterface
  <2>3. running' \subseteq {"acm", "rndis"} \X (0..NAcm) /\ running' = running
    BY <1>1 DEF ClassInv
  <2>4. rndis' # -1 => \E i \in 1..MaxInterfaces, n \in 0..NAcm : Has(rndis, i, "rndis", n)'
    <3>1. SUFFICES ASSUME rndis # -1
                   PROVE  \E i \in 1..MaxInterfaces, n \in 0..NAcm : Has(rndis, i, "rndis", n)'
      BY <1>1
    <3>2. PICK r \in Ports : r = rndis
      BY <3>1 DEF TypeOK
    <3>3. \E i \in 1..MaxInterfaces, n \in 0..NAcm : Has(r, i, "rndis", n)'
      BY <1>4, <3>1, <3>2 DEF ClassInv
    <3>4. QED BY <1>1, <3>2, <3>3 DEF Has
  <2>5. ASSUME NEW d \in Pooled, NEW n \in 0..NAcm
        PROVE  n \in devinuse'[d] <=> \E p \in Ports, i \in 1..MaxInterfaces : Has(p, i, d, n)'
    <3>1. n \in devinuse[d] <=> \E p \in Ports, i \in 1..MaxInterfaces : Has(p, i, d, n)
      BY DEF ClassInv
    <3>2. n \in devinuse'[d] <=> n \in devinuse[d] \/ (d = "hub" /\ n = 0)
      BY <1>9 DEF Pooled
    <3>3. QED BY <1>4, <1>5, <3>1, <3>2
  <2>6. ASSUME NEW d \in Pooled, NEW p \in Ports, NEW q \in Ports, NEW i \in 1..MaxInterfaces,
               NEW j \in 1..MaxInterfaces, NEW n \in 0..NAcm, Has(p, i, d, n)', Has(q, j, d, n)'
        PROVE  p = q /\ i = j
    <3>1. Has(p, i, d, n) \/ (p = c /\ i = k /\ d = "hub" /\ n = 0)
      BY <1>4, <2>6
    <3>2. Has(q, j, d, n) \/ (q = c /\ j = k /\ d = "hub" /\ n = 0)
      BY <1>4, <2>6
    <3>3. Has(p, i, d, n) /\ Has(q, j, d, n) => p = q /\ i = j
      BY DEF ClassInv
    <3>4. QED BY <1>6, <3>1, <3>2, <3>3
  <2>7. ASSUME NEW n \in 0..NAcm
        PROVE  <<"acm", n>> \in running' <=> \E p \in Ports, i \in 1..MaxInterfaces : Has(p, i, "acm", n)'
    <3>1. <<"acm", n>> \in running <=> \E p \in Ports, i \in 1..MaxInterfaces : Has(p, i, "acm", n)
      BY DEF ClassInv
    <3>2. QED BY <1>4, <1>5, <2>3, <3>1
  <2>8. devinuse'["hub"] \subseteq {0}
    BY <1>9 DEF ClassInv
  <2>9. QED BY <2>1, <2>2, <2>3, <2>4, <2>5, <2>6, <2>7, <2>8 DEF ClassInv
<1>11. HubInv'
  <2>1. \A p \in Ports : ~(port'[p].connected /\ p # 0)
    BY <1>3, <1>7, EnumAssumption DEF HubInv, NewInterface, Ports
  <2>2. HasHub(0)' /\ \A p \in Ports : HasHub(p)' => p = 0
    BY <1>4, <1>5, <1>7, <1>8
  <2>3. QED BY <2>1, <2>2 DEF HubInv
<1>12. VarType'
  BY <1>1, <1>3, <1>9, TypeForm DEF VarType, NewInterface
<1>13. QED BY <1>3, <1>10, <1>11, <1>12, TypeForm

-----------------------------------------------------------------------------
(* usbh_hubport_release.                                                   *)

\* The ports released with p: p alone, or everything when p has the hub.
LEMMA SubtreeForm ==
  ASSUME IInv, NEW p \in Ports
  PROVE  /\ Subtree(p) \subseteq InUse
         /\ port[p].connected => p \in Subtree(p)
         /\ \A q \in Subtree(p) : q # p => HasHub(p) /\ q # 0
         /\ HasHub(p) => p = 0 /\ Subtree(p) = InUse
<1>1. HasHub(p) => p = 0 /\ port[p].connected
  BY DEF IInv, HubInv, HasHub
<1>2. QED BY <1>1 DEF Subtree, InUse

\* The instances that the interfaces of the ports of S refer to.
LEMMA HeldInstances ==
  ASSUME IInv, NEW S, S \subseteq Ports
  PROVE  /\ \A d : \A n \in 0..NAcm :
              <<d, n>> \in Held(S) <=> \E q \in S, i \in 1..MaxInterfaces : Has(q, i, d, n)
         /\ \A x \in Held(S) : x = <<x[1], x[2]>>
         /\ \A n \in 0..NAcm :
              <<"acm", n>> \in Named(S) <=> \E q \in S, i \in 1..MaxInterfaces : Has(q, i, "acm", n)
<1> DEFINE F == UNION {ToSet(port[q].intf) : q \in S}
<1>1. \A f : f \in F <=> \E q \in S : \E i \in DOMAIN port[q].intf : f = port[q].intf[i]
  BY DEF ToSet
<1>2. ASSUME NEW q \in S, NEW i \in DOMAIN port[q].intf PROVE i \in 1..MaxInterfaces
  <2>1. DOMAIN port[q].intf = 1..Len(port[q].intf) /\ Len(port[q].intf) \in Nat
        /\ Len(port[q].intf) <= MaxInterfaces
    BY PortFields DEF IInv, ClassInv
  <2>2. QED BY <2>1 DEF MaxInterfaces
<1>3. \A n \in 0..NAcm : n # NoPriv
  BY EnumAssumption DEF NoPriv
<1>4. /\ Held(S) = {x \in {<<f.drv, f.priv>> : f \in F} : x[2] # NoPriv}
      /\ Named(S) = {<<f.drv, f.priv>> : f \in {g \in F : g.priv # NoPriv /\ g.name}}
  BY DEF Held, Instances, Named
<1> HIDE DEF F
<1>5. ASSUME NEW d, NEW n \in 0..NAcm
      PROVE  <<d, n>> \in Held(S) <=> \E q \in S, i \in 1..MaxInterfaces : Has(q, i, d, n)
  <2>1. <<d, n>> \in Held(S) <=> \E f \in F : f.drv = d /\ f.priv = n
    BY <1>3, <1>4
  <2>2. QED BY <1>1, <1>2, <2>1 DEF Has
<1>6. \A x \in Held(S) : x = <<x[1], x[2]>>
  BY <1>4
<1>7. ASSUME NEW n \in 0..NAcm
      PROVE  <<"acm", n>> \in Named(S) <=> \E q \in S, i \in 1..MaxInterfaces : Has(q, i, "acm", n)
  <2>1. <<"acm", n>> \in Named(S) <=> \E f \in F : f.drv = "acm" /\ f.priv = n /\ f.name
    BY <1>3, <1>4
  <2>2. \A q \in S, i \in 1..MaxInterfaces : Has(q, i, "acm", n) => port[q].intf[i].name
    BY DEF IInv, ClassInv
  <2>3. QED BY <1>1, <1>2, <2>1, <2>2 DEF Has
<1>8. QED BY <1>5, <1>6, <1>7

\* The ports of Subtree(p) are empty after the step, p too, which may be
\* connected again (b); the others are as before.
Releases(p, b) ==
  /\ usbh_hubport_release(p)
  /\ port' \in [Ports -> PortRec]
  /\ \A q \in Ports : q \in Subtree(p) \/ q = p => port'[q].addr = 0 /\ port'[q].intf = <<>>
  /\ \A q \in Ports : q \notin Subtree(p) /\ q # p => port'[q] = port[q]
  /\ \A q \in Ports : q \in Subtree(p) /\ q # p => ~port'[q].connected
  /\ port'[p].connected <=> b
  /\ cur'.pc # "setaddr"

\* The address of every released port is given back or, the highest one, lost.
LEMMA ReleaseAddr ==
  ASSUME IInv, NEW p \in Ports, NEW b \in BOOLEAN, Releases(p, b)
  PROVE  AddrInv' /\ next' \in Addrs /\ alloctab' \subseteq Addrs /\ leaked' \subseteq Addrs
<1> USE DEF IInv
<1> DEFINE S == Subtree(p)
           A == {port[q].addr : q \in S}
<1>1. /\ alloctab' = alloctab \ (A \ {0, AddrMax})
      /\ next' = Min((A \ {0, AddrMax}) \union {next})
      /\ leaked' = leaked \union (A \intersect {AddrMax})
                          \union (IF cur.pc = "setaddr" THEN {cur.addr} ELSE {})
  BY DEF Releases, usbh_hubport_release, Freed
<1>2. S \subseteq Ports
  BY SubtreeForm DEF InUse
<1>3. /\ A \subseteq Addrs \union {0} /\ next \in Addrs /\ alloctab \subseteq Addrs /\ leaked \subseteq Addrs
      /\ cur.pc = "setaddr" => cur.addr \in Addrs
  <2>1. cur.pc = "setaddr" => cur.addr \in Addrs
    BY DEF CurType, PortInv
  <2>2. A \subseteq Addrs \union {0}
    BY <1>2, PortFields
  <2>3. QED BY <2>1, <2>2 DEF TypeOK
<1>4. Addrs \subseteq Nat /\ 0 \notin Addrs /\ AddrMax \in Addrs
  BY EnumAssumption DEF Addrs
<1>5. next' \in Addrs
  <2> DEFINE T == (A \ {0, AddrMax}) \union {next}
  <2>1. T \subseteq Nat /\ T # {} /\ T \subseteq Addrs
    BY <1>3, <1>4
  <2> HIDE DEF T
  <2>2. Min(T) \in T
    BY <2>1, MinLeast
  <2>3. QED BY <1>1, <2>1, <2>2 DEF T
<1>6. \A q \in Ports : q \in S => port[q].addr \in A
  OBVIOUS
<1>7. \A a : a \in A => \E q \in Ports : q \in S /\ port[q].addr = a
  BY <1>2
<1>8. \A q \in Ports : HasAddr(q) => q \in S \/ q # p
  <2>1. p \notin S => port[p] = Unplugged
    BY SubtreeForm DEF PortInv
  <2>2. Unplugged.addr = 0
    BY DEF Unplugged
  <2>3. QED BY <2>1, <2>2 DEF HasAddr
<1> HIDE DEF A, S
<1>9. alloctab' \subseteq Addrs /\ leaked' \subseteq Addrs
  BY <1>1, <1>3, <1>4
<1>10. \A q \in Ports : port'[q].addr = IF q \in S \/ q = p THEN 0 ELSE port[q].addr
  BY DEF Releases, S
<1>11. \A q \in Ports : HasAddr(q)' <=> HasAddr(q) /\ q \notin S
  BY <1>8, <1>10 DEF HasAddr
<1>12. \A q \in Ports : HasAddr(q)' => port'[q].addr = port[q].addr /\ port[q].addr \notin A
  <2>1. ASSUME NEW q \in Ports, HasAddr(q)'
        PROVE  port'[q].addr = port[q].addr /\ port[q].addr \notin A
    <3>1. HasAddr(q) /\ q \notin S
      BY <1>11, <2>1
    <3>2. port'[q].addr = port[q].addr
      BY <1>8, <1>10, <3>1
    <3>3. \A r \in Ports : r \in S => port[r].addr # port[q].addr
      BY <3>1 DEF AddrInv, HasAddr
    <3>4. QED BY <1>7, <3>2, <3>3
  <2>2. QED BY <2>1
<1>13. cur'.pc # "setaddr"
  BY DEF Releases
<1>14. \A q, r \in Ports : HasAddr(q)' /\ port'[q].addr = port'[r].addr => q = r
  <2>1. ASSUME NEW q \in Ports, NEW r \in Ports, HasAddr(q)', port'[q].addr = port'[r].addr
        PROVE  q = r
    <3>1. HasAddr(r)'
      BY <2>1 DEF HasAddr
    <3>2. HasAddr(q) /\ port[q].addr = port[r].addr
      BY <1>11, <1>12, <2>1, <3>1
    <3>3. QED BY <3>2 DEF AddrInv
  <2>2. QED BY <2>1
<1>15. \A q \in Ports : HasAddr(q)' => port'[q].addr \notin leaked'
  <2>1. ASSUME NEW q \in Ports, HasAddr(q)' PROVE port'[q].addr \notin leaked'
    <3>1. HasAddr(q) /\ port'[q].addr = port[q].addr /\ port[q].addr \notin A
      BY <1>11, <1>12, <2>1
    <3>2. port[q].addr \notin leaked /\ ~(cur.pc = "setaddr" /\ cur.addr = port[q].addr)
      BY <3>1 DEF AddrInv
    <3>3. QED BY <1>1, <3>1, <3>2
  <2>2. QED BY <2>1
<1>16. ASSUME NEW a \in Addrs
       PROVE  a \in alloctab' <=> (\E q \in Ports : port'[q].addr = a) \/ a \in leaked'
  <2>1. a # 0 /\ (a \in alloctab <=> \/ \E q \in Ports : port[q].addr = a
                                     \/ cur.pc = "setaddr" /\ cur.addr = a
                                     \/ a \in leaked)
    BY <1>4 DEF AddrInv
  <2>2. (\E q \in Ports : port'[q].addr = a) <=> (\E q \in Ports : port[q].addr = a) /\ a \notin A
    <3>1. ASSUME NEW q \in Ports, port'[q].addr = a PROVE port[q].addr = a /\ a \notin A
      BY <1>12, <2>1, <3>1 DEF HasAddr
    <3>2. ASSUME NEW q \in Ports, port[q].addr = a, a \notin A PROVE port'[q].addr = a
      <4>1. HasAddr(q) /\ q \notin S
        BY <1>6, <2>1, <3>2 DEF HasAddr
      <4>2. QED BY <1>8, <1>10, <3>2, <4>1
    <3>3. QED BY <3>1, <3>2
  <2>3. a \in A => \E q \in Ports : port[q].addr = a
    BY <1>7
  <2>4. a \in A => a \notin leaked /\ ~(cur.pc = "setaddr" /\ cur.addr = a)
    BY <1>7, <2>1 DEF AddrInv, HasAddr
  <2>5. a \in leaked' <=> a \in leaked \/ (a \in A /\ a = AddrMax) \/ (cur.pc = "setaddr" /\ cur.addr = a)
    BY <1>1
  <2>6. a \in alloctab' <=> a \in alloctab /\ ~(a \in A /\ a # AddrMax)
    BY <1>1, <2>1
  <2>7. QED BY <2>1, <2>2, <2>3, <2>4, <2>5, <2>6
<1>17. AddrInv'
  BY <1>13, <1>14, <1>15, <1>16 DEF AddrInv
<1>18. QED BY <1>5, <1>9, <1>17

\* The class instances of the released ports are given back, no others.
LEMMA ReleaseClass ==
  ASSUME IInv, NEW p \in Ports, NEW b \in BOOLEAN, Releases(p, b)
  PROVE  /\ ClassInv'
         /\ devinuse' \in [Pooled -> SUBSET (0 .. NAcm)] /\ rndis' \in Ports \union {-1}
<1> USE DEF IInv
<1> DEFINE S == Subtree(p)
<1>1. /\ devinuse' = [d \in Pooled |-> devinuse[d] \ {x[2] : x \in {y \in Held(S) : y[1] = d}}]
      /\ rndis' = IF \E x \in Held(S) : x[1] = "rndis" THEN -1 ELSE rndis
      /\ running' = running \ Named(S)
  BY DEF Releases, usbh_hubport_release
<1>2. S \subseteq Ports
  BY SubtreeForm DEF InUse
<1>3. /\ \A d : \A n \in 0..NAcm :
           <<d, n>> \in Held(S) <=> \E q \in S, i \in 1..MaxInterfaces : Has(q, i, d, n)
      /\ \A x \in Held(S) : x = <<x[1], x[2]>>
      /\ \A n \in 0..NAcm :
           <<"acm", n>> \in Named(S) <=> \E q \in S, i \in 1..MaxInterfaces : Has(q, i, "acm", n)
  BY <1>2, HeldInstances
<1>4. p \notin S => port[p].intf = <<>>
  <2>1. p \notin S => port[p] = Unplugged
    BY SubtreeForm DEF PortInv
  <2>2. QED BY <2>1 DEF Unplugged
<1>5. \A q \in Ports : port'[q].intf = IF q \in S THEN <<>> ELSE port[q].intf
  BY <1>4 DEF Releases
<1>6. \A q \in Ports : \A i, d, n : Has(q, i, d, n)' <=> Has(q, i, d, n) /\ q \notin S
  BY <1>5 DEF Has
<1> HIDE DEF S
<1>7. ASSUME NEW d \in Pooled
      PROVE  /\ devinuse'[d] \in SUBSET (0..NAcm)
             /\ \A n : n \in devinuse'[d] <=> n \in devinuse[d] /\ <<d, n>> \notin Held(S)
  <2>1. devinuse[d] \in SUBSET (0..NAcm)
    BY DEF TypeOK
  <2>2. \A n : n \in {x[2] : x \in {y \in Held(S) : y[1] = d}} <=> <<d, n>> \in Held(S)
    BY <1>3
  <2>3. QED BY <1>1, <2>1, <2>2
<1>8. devinuse' \in [Pooled -> SUBSET (0..NAcm)]
  BY <1>1, <1>7
<1>9. rndis' \in Ports \union {-1}
  BY <1>1 DEF TypeOK
<1>10. \A q \in Ports : Len(port'[q].intf) <= MaxInterfaces
  BY <1>5 DEF ClassInv, MaxInterfaces
<1>11. ASSUME NEW d \in Pooled, NEW n \in 0..NAcm
       PROVE  n \in devinuse'[d] <=> \E q \in Ports, i \in 1..MaxInterfaces : Has(q, i, d, n)'
  <2>1. n \in devinuse[d] <=> \E q \in Ports, i \in 1..MaxInterfaces : Has(q, i, d, n)
    BY DEF ClassInv
  <2>2. \A q, r \in Ports, i, j \in 1..MaxInterfaces : Has(q, i, d, n) /\ Has(r, j, d, n) => q = r
    BY DEF ClassInv
  <2>3. n \in devinuse'[d] <=> n \in devinuse[d] /\ ~\E q \in S, i \in 1..MaxInterfaces : Has(q, i, d, n)
    BY <1>3, <1>7
  <2>4. ASSUME n \in devinuse'[d] PROVE \E q \in Ports, i \in 1..MaxInterfaces : Has(q, i, d, n)'
    BY <1>6, <2>1, <2>3, <2>4
  <2>5. ASSUME NEW q \in Ports, NEW i \in 1..MaxInterfaces, Has(q, i, d, n)' PROVE n \in devinuse'[d]
    <3>1. Has(q, i, d, n) /\ q \notin S
      BY <1>6, <2>5
    <3>2. QED BY <1>2, <2>1, <2>2, <2>3, <3>1
  <2>6. QED BY <2>4, <2>5
<1>12. \A d \in Pooled, q, r \in Ports, i, j \in 1..MaxInterfaces, n \in 0..NAcm :
         Has(q, i, d, n)' /\ Has(r, j, d, n)' => q = r /\ i = j
  BY <1>6 DEF ClassInv
<1>13. ASSUME NEW n \in 0..NAcm
       PROVE  <<"acm", n>> \in running' <=> \E q \in Ports, i \in 1..MaxInterfaces : Has(q, i, "acm", n)'
  <2>1. <<"acm", n>> \in running <=> \E q \in Ports, i \in 1..MaxInterfaces : Has(q, i, "acm", n)
    BY DEF ClassInv
  <2>2. \A q, r \in Ports, i, j \in 1..MaxInterfaces : Has(q, i, "acm", n) /\ Has(r, j, "acm", n) => q = r
    BY DEF ClassInv, Pooled
  <2>3. <<"acm", n>> \in running' <=> <<"acm", n>> \in running
                                      /\ ~\E q \in S, i \in 1..MaxInterfaces : Has(q, i, "acm", n)
    BY <1>1, <1>3
  <2>4. ASSUME <<"acm", n>> \in running'
        PROVE  \E q \in Ports, i \in 1..MaxInterfaces : Has(q, i, "acm", n)'
    BY <1>6, <2>1, <2>3, <2>4
  <2>5. ASSUME NEW q \in Ports, NEW i \in 1..MaxInterfaces, Has(q, i, "acm", n)'
        PROVE  <<"acm", n>> \in running'
    <3>1. Has(q, i, "acm", n) /\ q \notin S
      BY <1>6, <2>5
    <3>2. QED BY <1>2, <2>1, <2>2, <2>3, <3>1
  <2>6. QED BY <2>4, <2>5
<1>14. \A q \in Ports, i \in 1..MaxInterfaces, n \in 0..NAcm : Has(q, i, "acm", n)' => port'[q].intf[i].name
  <2>1. ASSUME NEW q \in Ports, NEW i \in 1..MaxInterfaces, NEW n \in 0..NAcm, Has(q, i, "acm", n)'
        PROVE  port'[q].intf[i].name
    <3>1. Has(q, i, "acm", n) /\ q \notin S
      BY <1>6, <2>1
    <3>2. port[q].intf[i].name
      BY <3>1 DEF ClassInv
    <3>3. QED BY <1>5, <3>1, <3>2
  <2>2. QED BY <2>1
<1>15. running' \subseteq {"acm", "rndis"} \X (0..NAcm)
  BY <1>1 DEF ClassInv
<1>16. rndis' # -1 => \E i \in 1..MaxInterfaces, n \in 0..NAcm : Has(rndis, i, "rndis", n)'
  <2>1. SUFFICES ASSUME rndis' # -1
                 PROVE  \E i \in 1..MaxInterfaces, n \in 0..NAcm : Has(rndis, i, "rndis", n)'
    OBVIOUS
  <2>2. rndis' = rndis /\ \A x \in Held(S) : x[1] # "rndis"
    BY <1>1, <2>1
  <2>3. PICK r \in Ports : r = rndis
    BY <2>1, <2>2 DEF TypeOK
  <2>4. PICK i \in 1..MaxInterfaces, n \in 0..NAcm : Has(r, i, "rndis", n)
    BY <2>1, <2>2, <2>3 DEF ClassInv
  <2>5. r \notin S
    <3>1. ASSUME r \in S PROVE FALSE
      <4>1. <<"rndis", n>> \in Held(S)
        BY <1>3, <2>4, <3>1
      <4>2. <<"rndis", n>>[1] = "rndis"
        OBVIOUS
      <4>3. QED BY <2>2, <4>1, <4>2
    <3>2. QED BY <3>1
  <2>6. Has(r, i, "rndis", n)'
    BY <1>6, <2>4, <2>5
  <2>7. QED BY <2>2, <2>3, <2>6 DEF Has
<1>17. devinuse'["hub"] \subseteq {0}
  BY <1>7 DEF ClassInv, Pooled
<1>18. ClassInv'
  BY <1>10, <1>11, <1>12, <1>13, <1>14, <1>15, <1>16, <1>17 DEF ClassInv
<1>19. QED BY <1>8, <1>9, <1>18

\* The hub goes with all its ports.
LEMMA ReleaseHub ==
  ASSUME IInv, NEW p \in Ports, NEW b \in BOOLEAN, Releases(p, b), b /\ p # 0 => hub.connected
  PROVE  HubInv' /\ hub' \in [connected : BOOLEAN, timer : BOOLEAN]
<1> USE DEF IInv
<1>1. hub' = IF HasHub(p) THEN [connected |-> FALSE, timer |-> FALSE] ELSE hub
  BY DEF Releases, usbh_hubport_release
<1>2. hub' \in [connected : BOOLEAN, timer : BOOLEAN]
  BY <1>1 DEF TypeOK
<1>3. \A q \in Ports : HasHub(q)' => HasHub(q)
  <2>1. \A q \in Ports : HasHub(q)' => port'[q].intf # <<>>
    BY DEF HasHub
  <2>2. \A q \in Ports : port'[q].intf # <<>> => port'[q] = port[q]
    BY DEF Releases
  <2>3. QED BY <2>1, <2>2 DEF HasHub, NoPriv
<1>4. CASE HasHub(p)
  <2>1. p = 0 /\ Subtree(p) = InUse /\ ~hub'.connected
    BY <1>1, <1>4, SubtreeForm
  <2>2. \A q \in Ports : q # 0 => ~port'[q].connected
    BY <2>1 DEF Releases, InUse
  <2>3. QED BY <1>2, <1>3, <2>1, <2>2 DEF HubInv
<1>5. CASE ~HasHub(p)
  <2>1. hub' = hub /\ \A q \in Subtree(p) : q = p
    BY <1>1, <1>5, SubtreeForm
  <2>2. \A q \in Ports : q # p => port'[q] = port[q]
    BY <2>1 DEF Releases
  <2>3. 0 \in Ports
    BY EnumAssumption DEF Ports
  <2>4. hub.connected => HasHub(0)'
    <3>1. ASSUME hub.connected PROVE HasHub(0)'
      <4>1. HasHub(0) /\ p # 0
        BY <1>5, <3>1 DEF HubInv
      <4>2. port'[0] = port[0]
        BY <2>2, <2>3, <4>1
      <4>3. QED BY <4>1, <4>2 DEF HasHub, NoPriv
    <3>2. QED BY <3>1
  <2>5. \A q \in Ports : port'[q].connected /\ q # 0 => hub.connected
    BY <2>2 DEF HubInv, Releases
  <2>6. QED BY <1>2, <1>3, <2>1, <2>4, <2>5 DEF HubInv
<1>6. QED BY <1>4, <1>5

\* The mutex of every released port is deleted, and a connected port has a
\* new one.
LEMMA ReleaseMutex ==
  ASSUME IInv, NEW p \in Ports, NEW b \in BOOLEAN, Releases(p, b),
         mutexes' = mutexes - Cardinality(Subtree(p)) + (IF b THEN 1 ELSE 0)
  PROVE  mutexes' = Cardinality(InUse') /\ mutexes' \in Nat
<1> USE DEF IInv
<1> DEFINE S == Subtree(p)
           U == InUse
<1>1. IsFiniteSet(Ports)
  BY EnumAssumption, FS_Interval DEF Ports
<1>2. U \subseteq Ports /\ S \subseteq U /\ IsFiniteSet(U) /\ IsFiniteSet(S)
  BY <1>1, SubtreeForm, FS_Subset DEF InUse
<1>3. Cardinality(U) \in Nat /\ Cardinality(S) \in Nat
  BY <1>2, FS_CardinalityType
<1>4. IsFiniteSet(U \ S) /\ Cardinality(U \ S) = Cardinality(U) - Cardinality(S)
  <2>1. U \cap S = S
    BY <1>2
  <2> HIDE DEF U, S
  <2>2. QED BY <1>2, <2>1, FS_Difference
<1>5. Cardinality(U \ S) \in Nat
  BY <1>4, FS_CardinalityType
<1>6. p \notin U \ S /\ mutexes = Cardinality(U)
  BY SubtreeForm DEF InUse, ResourceInv
<1>7. \A q \in Ports : port'[q].connected <=> (q \in U \ S) \/ (b /\ q = p)
  BY <1>2, <1>6 DEF Releases, InUse
<1>8. InUse' = {q \in Ports : port'[q].connected}
  BY DEF InUse
<1> HIDE DEF U, S
<1>9. CASE b
  <2>1. InUse' = (U \ S) \union {p}
    BY <1>2, <1>7, <1>8, <1>9
  <2>2. Cardinality((U \ S) \union {p}) = Cardinality(U \ S) + 1
    BY <1>4, <1>6, FS_AddElement
  <2>3. QED BY <1>3, <1>4, <1>5, <1>6, <1>9, <2>1, <2>2 DEF S
<1>10. CASE ~b
  <2>1. InUse' = U \ S
    BY <1>2, <1>7, <1>8, <1>10
  <2>2. QED BY <1>3, <1>4, <1>5, <1>6, <1>10, <2>1 DEF S
<1>11. QED BY <1>9, <1>10

\* The records of the ports after a release, p connected again or not.
LEMMA ReleaseForm ==
  ASSUME IInv, NEW p \in Ports, NEW b \in BOOLEAN, usbh_hubport_release(p),
         port' = IF b THEN [Released(p) EXCEPT ![p].connected = TRUE] ELSE Released(p),
         cur'.pc # "setaddr"
  PROVE  Releases(p, b) /\ \A q \in Ports : ~port'[q].connected => port'[q] = Unplugged
<1> USE DEF IInv
<1> DEFINE S == Subtree(p)
           R == Released(p)
<1>1. Unplugged \in PortRec /\ Unplugged.addr = 0 /\ Unplugged.intf = <<>> /\ Unplugged.connected = FALSE
  BY DEF Unplugged, PortRec
<1>2. R = [q \in Ports |-> IF q \in S THEN Unplugged ELSE port[q]]
  BY DEF Released
<1>3. p \notin S => port[p] = Unplugged
  BY SubtreeForm DEF PortInv
<1>4. S \subseteq Ports
  BY SubtreeForm DEF InUse
<1>5. \A q \in Ports : port[q] \in PortRec
  BY PortFields
<1> HIDE DEF S, R
<1>6. R \in [Ports -> PortRec] /\ R[p] = Unplugged
  BY <1>1, <1>2, <1>3, <1>5
<1>7. \A q \in Ports : R[q] = IF q \in S THEN Unplugged ELSE port[q]
  BY <1>2
<1>8. port' = IF b THEN [R EXCEPT ![p].connected = TRUE] ELSE R
  BY DEF R
<1>9. CASE b
  <2>1. port' = [R EXCEPT ![p].connected = TRUE]
    BY <1>8, <1>9
  <2>2. /\ port' \in [Ports -> PortRec] /\ port'[p].connected = TRUE /\ port'[p].addr = R[p].addr
        /\ port'[p].intf = R[p].intf /\ \A q \in Ports : q # p => port'[q] = R[q]
    BY <1>6, <2>1 DEF PortRec
  <2>3. QED
    BY <1>1, <1>6, <1>7, <1>9, <2>2 DEF Releases, S, PortInv
<1>10. CASE ~b
  <2>1. port' = R
    BY <1>8, <1>10
  <2>2. QED
    BY <1>1, <1>6, <1>7, <1>10, <2>1 DEF Releases, S, PortInv
<1>11. QED BY <1>9, <1>10

\* A release leaves everything accounted for; an enumeration may start on p.
LEMMA ReleaseInv ==
  ASSUME IInv, NEW p \in Ports, NEW b \in BOOLEAN, usbh_hubport_release(p),
         port' = IF b THEN [Released(p) EXCEPT ![p].connected = TRUE] ELSE Released(p),
         mutexes' = mutexes - Cardinality(Subtree(p)) + (IF b THEN 1 ELSE 0),
         b /\ p # 0 => hub.connected,
         heap' = {}, CurType', cur'.pc \in {"idle", "desc8"},
         cur'.pc # "idle" => b /\ cur'.port = p /\ cur'.dev \in Devices
  PROVE  IInv'
<1>1. Releases(p, b) /\ \A q \in Ports : ~port'[q].connected => port'[q] = Unplugged
  BY ReleaseForm
<1>2. AddrInv' /\ next' \in Addrs /\ alloctab' \subseteq Addrs /\ leaked' \subseteq Addrs
  BY <1>1, ReleaseAddr
<1>3. ClassInv' /\ devinuse' \in [Pooled -> SUBSET (0 .. NAcm)] /\ rndis' \in Ports \union {-1}
  BY <1>1, ReleaseClass
<1>4. HubInv' /\ hub' \in [connected : BOOLEAN, timer : BOOLEAN]
  BY <1>1, ReleaseHub
<1>5. mutexes' = Cardinality(InUse') /\ mutexes' \in Nat
  BY <1>1, ReleaseMutex
<1>6. PortInv'
  BY <1>1 DEF PortInv, Releases
<1>7. VarType'
  BY <1>1, <1>2, <1>3, <1>4, <1>5 DEF VarType, Releases
<1>8. ResourceInv'
  BY <1>5 DEF ResourceInv
<1>9. QED BY <1>2, <1>3, <1>4, <1>6, <1>7, <1>8, TypeForm DEF IInv

\* A failed enumeration releases its port.
LEMMA FailInv ==
  ASSUME IInv, Fail
  PROVE  IInv'
<1> USE DEF IInv
<1>1. /\ cur' = Idle /\ heap' = heap \ {cur.port} /\ usbh_hubport_release(cur.port)
      /\ port' = Released(cur.port) /\ mutexes' = mutexes - Cardinality(Subtree(cur.port))
  BY DEF Fail, Return
<1>2. CurType' /\ cur'.pc = "idle"
  BY <1>1, IdleCur
<1>3. heap' = {}
  BY <1>1 DEF ResourceInv
<1>4. PICK p \in Ports : p = cur.port
  BY CurFields
<1>5. mutexes - Cardinality(Subtree(p)) + 0 = mutexes - Cardinality(Subtree(p))
  <2>1. IsFiniteSet(Ports)
    BY EnumAssumption, FS_Interval DEF Ports
  <2>2. IsFiniteSet(Subtree(p))
    BY <2>1, FS_Subset DEF Subtree
  <2>3. Cardinality(Subtree(p)) \in Nat /\ mutexes \in Nat
    BY <2>2, FS_CardinalityType DEF TypeOK
  <2>4. QED BY <2>3
<1>6. PICK b \in BOOLEAN : b = FALSE
  OBVIOUS
<1>7. QED BY <1>1, <1>2, <1>3, <1>4, <1>5, <1>6, ReleaseInv

\* A port was found empty.
LEMMA DisconnectedInv ==
  ASSUME IInv, NEW p \in Ports, Disconnected(p)
  PROVE  IInv'
<1> USE DEF IInv
<1>1. /\ cur.pc = "idle" /\ UNCHANGED <<heap, cur>> /\ usbh_hubport_release(p)
      /\ port' = Released(p) /\ mutexes' = mutexes - Cardinality(Subtree(p))
  BY DEF Disconnected, Active
<1>2. CurType' /\ cur'.pc = "idle"
  BY <1>1 DEF CurType
<1>3. heap' = {}
  BY <1>1 DEF ResourceInv
<1>5. mutexes - Cardinality(Subtree(p)) + 0 = mutexes - Cardinality(Subtree(p))
  <2>1. IsFiniteSet(Ports)
    BY EnumAssumption, FS_Interval DEF Ports
  <2>2. IsFiniteSet(Subtree(p))
    BY <2>1, FS_Subset DEF Subtree
  <2>3. Cardinality(Subtree(p)) \in Nat /\ mutexes \in Nat
    BY <2>2, FS_CardinalityType DEF TypeOK
  <2>4. QED BY <2>3
<1>6. PICK b \in BOOLEAN : b = FALSE
  OBVIOUS
<1>7. QED BY <1>1, <1>2, <1>3, <1>5, <1>6, ReleaseInv

\* A port was found connected.
LEMMA ConnectedInv ==
  ASSUME IInv, NEW p \in Ports, NEW dev \in Devices, Connected(p, dev)
  PROVE  IInv'
<1> USE DEF IInv
<1>1. /\ cur.pc = "idle" /\ heap' = heap /\ usbh_hubport_release(p) /\ (p # 0 => hub.connected)
      /\ port' = [Released(p) EXCEPT ![p].connected = TRUE]
      /\ mutexes' = mutexes - Cardinality(Subtree(p)) + 1
      /\ cur' = [pc |-> "desc8", port |-> p, addr |-> 0, i |-> 0, ret |-> 0, dev |-> dev]
  BY DEF Connected, Active
<1>2. CurType' /\ cur'.pc = "desc8" /\ cur'.port = p /\ cur'.dev \in Devices
  BY <1>1 DEF CurType, Pcs
<1>3. heap' = {}
  BY <1>1 DEF ResourceInv
<1>4. PICK b \in BOOLEAN : b = TRUE
  OBVIOUS
<1>5. QED BY <1>1, <1>2, <1>3, <1>4, ReleaseInv

-----------------------------------------------------------------------------
(* The invariant.                                                          *)

\* The initial state, after usbh_initialize.
LEMMA InitInv == Init => IInv
<1> SUFFICES ASSUME Init PROVE IInv
  OBVIOUS
<1> USE DEF Init
<1>1. CurType /\ cur.pc = "idle"
  <2>1. 0 \in Ports
    BY EnumAssumption DEF Ports
  <2>2. QED BY <2>1 DEF Idle, CurType, Pcs
<1>2. 0 \in Ports /\ 2 \in Addrs /\ 0 \notin Addrs
  BY EnumAssumption DEF Ports, Addrs
<1>3. /\ Unplugged \in PortRec /\ Unplugged.connected = FALSE /\ Unplugged.addr = 0
      /\ Unplugged.intf = <<>>
  BY DEF Unplugged, PortRec
<1>4. port \in [Ports -> PortRec] /\ \A p \in Ports : port[p] = Unplugged
  BY <1>3
<1>5. VarType
  BY <1>2, <1>4 DEF VarType
<1>6. PortInv
  BY <1>1, <1>4 DEF PortInv
<1>7. AddrInv
  BY <1>1, <1>2, <1>3, <1>4 DEF AddrInv, HasAddr
<1>8. \A p \in Ports : \A i, d, n : ~Has(p, i, d, n)
  BY <1>3, <1>4 DEF Has
<1>9. ClassInv
  <2>1. \A p \in Ports : Len(port[p].intf) <= MaxInterfaces
    BY <1>3, <1>4 DEF MaxInterfaces
  <2>2. \A d \in Pooled : devinuse[d] = {}
    OBVIOUS
  <2>3. devinuse["hub"] = {}
    BY DEF Pooled
  <2>4. QED BY <1>8, <2>1, <2>2, <2>3 DEF ClassInv
<1>10. HubInv
  BY <1>2, <1>3, <1>4 DEF HubInv, HasHub
<1>11. ResourceInv
  <2>1. InUse = {}
    BY <1>3, <1>4 DEF InUse
  <2>2. QED BY <2>1, FS_EmptySet DEF ResourceInv
<1>12. QED BY <1>1, <1>5, <1>6, <1>7, <1>9, <1>10, <1>11, TypeForm DEF IInv

\* Every interface was looked at.
LEMMA EndsInv ==
  ASSUME IInv, EnumerateEnds
  PROVE  IInv'
<1>1. CASE Fail
  BY <1>1, FailInv
<1>2. CASE Return /\ UNCHANGED <<next, alloctab, leaked, port, mutexes, classVars>>
  BY <1>2, ReturnInv DEF EnumerateEnds, IInv, TypeOK
<1>3. QED BY <1>1, <1>2 DEF EnumerateEnds

\* Every step of the hub thread keeps the invariant.
LEMMA NextInv == IInv /\ [Next]_vars => IInv'
<1> SUFFICES ASSUME IInv, [Next]_vars PROVE IInv'
  OBVIOUS
<1>1. ASSUME NEW p \in Ports, Disconnected(p) PROVE IInv'
  BY <1>1, DisconnectedInv
<1>2. ASSUME NEW p \in Ports, NEW dev \in Devices, Connected(p, dev) PROVE IInv'
  BY <1>2, ConnectedInv
<1>3. CASE TransferFails \/ ConfigTooLong \/ ConfigRefused
  BY <1>3, FailInv DEF TransferFails, ConfigTooLong, ConfigRefused
<1>4. CASE Desc8Arrives
  BY <1>4, Desc8Inv
<1>5. CASE SetAddressDone
  BY <1>5, SetAddressInv
<1>6. CASE SetConfigurationDone \/ DescriptorArrives \/ SkipInterface
  BY <1>6, MoveOn
<1>7. CASE ConfigArrives
  BY <1>7, ConfigInv
<1>8. CASE EnumerateEnds
  BY <1>8, EndsInv
<1>9. CASE usbh_cdc_data_connect \/ \E drv \in Pooled : PoolEmpty(drv)
  BY <1>9, DataInv
<1>10. CASE usbh_cdc_acm_connect
  BY <1>10, AcmInv
<1>11. ASSUME NEW ok \in BOOLEAN, usbh_rndis_connect(ok) PROVE IInv'
  BY <1>11, RndisInv
<1>12. ASSUME NEW outcome \in {"request", "timer", "ok"}, usbh_hub_connect(outcome) PROVE IInv'
  BY <1>12, HubConnectInv
<1>13. CASE UNCHANGED vars
  <2> USE <1>13 DEF IInv, vars
  <2>1. TypeOK' /\ CurType' /\ PortInv'
    BY DEF TypeOK, CurType, PortInv
  <2>2. AddrInv'
    BY DEF AddrInv, HasAddr
  <2>3. ClassInv' /\ HubInv' /\ InUse' = InUse
    BY SameIntf DEF classVars, TypeOK
  <2>4. QED BY <2>1, <2>2, <2>3 DEF ResourceInv
<1>14. CASE Next
  BY <1>1, <1>2, <1>3, <1>4, <1>5, <1>6, <1>7, <1>8, <1>9, <1>10, <1>11, <1>12, <1>14
     DEF Next, HubEvent, Enumerate, ClassConnect
<1>15. QED BY <1>13, <1>14

-----------------------------------------------------------------------------
(* The timer of the hub.                                                   *)

\* A release takes the hub away when its device is released, and leaves it
\* alone otherwise.
LEMMA ReleaseTimer ==
  ASSUME IInv, TimerInv, NEW p \in Ports, usbh_hubport_release(p),
         cur.pc = "load" => p = cur.port
  PROVE  TimerInv'
<1>1. hub' = IF HasHub(p) THEN [connected |-> FALSE, timer |-> FALSE] ELSE hub
  BY DEF usbh_hubport_release
<1>2. CASE HasHub(p)
  BY <1>1, <1>2 DEF TimerInv
<1>3. CASE ~HasHub(p)
  <2>1. ~(hub.connected /\ ~hub.timer)
    BY <1>3 DEF TimerInv, IInv, HubInv
  <2>2. QED BY <1>1, <1>3, <2>1 DEF TimerInv
<1>4. QED BY <1>2, <1>3

\* usbh_hub_connect: a hub whose timer could not be created is the device of
\* the root port, has no other interface and is refused.
LEMMA ConnectTimer ==
  ASSUME IInv, NEW outcome \in {"request", "timer", "ok"}, usbh_hub_connect(outcome)
  PROVE  TimerInv'
<1> USE DEF IInv
<1>1. PICK name \in BOOLEAN, ret \in {-1, 0} :
        /\ Loading("hub") /\ Connect("hub", 0, name, ret)
        /\ ret = IF outcome = "ok" THEN 0 ELSE -1
        /\ hub' = [connected |-> outcome # "request", timer |-> outcome = "ok"]
  BY DEF usbh_hub_connect
<1>2. 0 \in -1..NAcm /\ 0 # NoPriv
  BY EnumAssumption DEF NoPriv
<1>3. /\ cur' = [cur EXCEPT !.i = cur.i + 1, !.ret = ret]
      /\ NewInterface(cur.port, cur.i, "hub", 0)
  BY <1>1, <1>2, ConnectStep
<1>4. cur.port \in Ports /\ cur.pc = "load" /\ cur.i \in DOMAIN cur.dev /\ cur.dev[cur.i] = "hub"
  BY <1>1, CurFields DEF Loading
<1>5. PICK c \in Ports : c = cur.port
  BY <1>4
<1>6. HasHub(c)'
  <2>1. PICK k : k = cur.i
    OBVIOUS
  <2>2. QED BY <1>2, <1>3, <1>5, <2>1, NewInstance
<1>7. c = 0
  BY <1>6, HubConnectInv DEF HubInv
<1>8. cur.dev \in Devices /\ Len(cur.dev) = 1
  BY <1>4, HubAssumption DEF PortInv
<1>9. cur.i = 1
  BY <1>4, <1>8, EnumAssumption
<1>10. /\ cur'.pc = "load" /\ cur'.port = 0 /\ cur'.i = Len(cur'.dev) + 1 /\ cur'.ret = ret
  BY <1>3, <1>4, <1>5, <1>7, <1>8, <1>9 DEF CurType
<1>11. CASE outcome = "timer"
  BY <1>1, <1>10, <1>11 DEF TimerInv
<1>12. CASE outcome # "timer"
  BY <1>1, <1>12 DEF TimerInv
<1>13. QED BY <1>11, <1>12

\* Every step keeps the timer with the hub.
LEMMA NextTimer ==
  ASSUME IInv, TimerInv, [Next]_vars
  PROVE  TimerInv'
<1> USE DEF IInv
<1>1. ASSUME NEW p \in Ports, NEW dev, Disconnected(p) \/ Connected(p, dev) PROVE TimerInv'
  BY <1>1, ReleaseTimer DEF Disconnected, Connected, Active
<1>2. CASE Fail
  BY <1>2, ReleaseTimer, CurFields DEF Fail
<1>3. CASE UNCHANGED hub /\ ~(cur.pc = "load" /\ cur.i = Len(cur.dev) + 1 /\ cur.ret = -1)
  BY <1>3 DEF TimerInv
<1>4. CASE UNCHANGED vars
  BY <1>4 DEF TimerInv, vars
<1>5. \A drv : Loading(drv) => cur.i # Len(cur.dev) + 1
  BY EnumAssumption DEF Loading, PortInv
<1>6. ASSUME NEW outcome \in {"request", "timer", "ok"}, usbh_hub_connect(outcome) PROVE TimerInv'
  BY <1>6, ConnectTimer
<1>7. CASE Enumerate
  <2>1. CASE TransferFails \/ ConfigTooLong \/ ConfigRefused
    BY <1>2, <2>1 DEF TransferFails, ConfigTooLong, ConfigRefused
  <2>2. CASE Desc8Arrives \/ SetAddressDone \/ DescriptorArrives \/ ConfigArrives \/ SetConfigurationDone
    BY <1>3, <2>2 DEF Desc8Arrives, SetAddressDone, DescriptorArrives, ConfigArrives,
                      SetConfigurationDone, classVars
  <2>3. CASE SkipInterface
    BY <1>3, <1>5, <2>3 DEF SkipInterface
  <2>4. CASE EnumerateEnds
    BY <1>2, <1>3, <2>4 DEF EnumerateEnds, classVars
  <2>5. QED BY <1>7, <2>1, <2>2, <2>3, <2>4 DEF Enumerate
<1>8. CASE ClassConnect
  <2>1. ASSUME NEW drv, PoolEmpty(drv) PROVE TimerInv'
    BY <1>3, <1>5, <2>1 DEF PoolEmpty, classVars
  <2>2. CASE usbh_cdc_acm_connect \/ usbh_cdc_data_connect
    BY <1>3, <1>5, <2>2 DEF usbh_cdc_acm_connect, usbh_cdc_data_connect, classVars
  <2>3. ASSUME NEW ok, usbh_rndis_connect(ok) PROVE TimerInv'
    BY <1>3, <1>5, <2>3 DEF usbh_rndis_connect
  <2>4. QED BY <1>6, <1>8, <2>1, <2>2, <2>3 DEF ClassConnect
<1>9. QED BY <1>1, <1>4, <1>7, <1>8 DEF Next, HubEvent

-----------------------------------------------------------------------------
(* What the invariant says of the addresses, the pools and the tree.       *)

\* The ports with an address are the owners.
LEMMA AddrImplied == IInv => AddrExact
<1> SUFFICES ASSUME IInv PROVE AddrExact
  OBVIOUS
<1> USE DEF IInv
<1> DEFINE inflight == IF cur.pc = "setaddr" THEN {cur.addr} ELSE {}
           A == {port[p].addr : p \in Owners}
<1>1. \A p \in Ports : p \in Owners <=> HasAddr(p)
  <2>1. Unplugged.addr = 0
    BY DEF Unplugged
  <2>2. QED BY <2>1 DEF Owners, InUse, HasAddr, PortInv
<1>2. Owners \subseteq Ports
  BY DEF Owners, InUse
<1>3. \A p, q \in Owners : port[p].addr = port[q].addr => p = q
  BY <1>1, <1>2 DEF AddrInv
<1>4. A \subseteq Addrs /\ inflight \subseteq Addrs /\ leaked \subseteq Addrs /\ alloctab \subseteq Addrs
  <2>1. A \subseteq Addrs
    BY <1>1, <1>2, PortFields DEF HasAddr
  <2>2. inflight \subseteq Addrs
    BY CurFields DEF PortInv
  <2>3. QED BY <2>1, <2>2 DEF TypeOK
<1>5. 0 \notin Addrs
  BY EnumAssumption DEF Addrs
<1>6. \A a \in Addrs : a \in A <=> \E p \in Ports : port[p].addr = a
  BY <1>1, <1>2, <1>5 DEF HasAddr
<1>7. \A a \in Addrs : a \in alloctab <=> a \in A \/ a \in inflight \/ a \in leaked
  BY <1>6 DEF AddrInv
<1>8. (inflight \union leaked) \intersect A = {}
  BY <1>1, <1>2 DEF AddrInv
<1>9. alloctab = A \union inflight \union leaked
  <2> HIDE DEF A, inflight
  <2>1. QED BY <1>4, <1>7
<1>10. QED BY <1>3, <1>8, <1>9 DEF AddrExact

\* The interfaces that have an instance are those that ClassExact counts.
LEMMA ClassImplied == IInv => ClassExact
<1> SUFFICES ASSUME IInv PROVE ClassExact
  OBVIOUS
<1> USE DEF IInv
<1> DEFINE Refs(d) == {pi \in InUse \X (1 .. MaxInterfaces) :
                         /\ pi[2] \in DOMAIN port[pi[1]].intf
                         /\ port[pi[1]].intf[pi[2]].drv = d
                         /\ port[pi[1]].intf[pi[2]].priv # NoPriv}
           Inst(pi) == port[pi[1]].intf[pi[2]].priv
<1>1. \A n \in 0..NAcm : n # NoPriv
  BY EnumAssumption DEF NoPriv
<1>2. \A p \in Ports : \A i, d, n : Has(p, i, d, n) => p \in InUse
  <2>1. Unplugged.intf = <<>>
    BY DEF Unplugged
  <2>2. QED BY <2>1 DEF Has, InUse, PortInv
<1>3. ASSUME NEW d, NEW pi \in Refs(d)
      PROVE  /\ pi = <<pi[1], pi[2]>> /\ pi[1] \in Ports /\ pi[2] \in 1..MaxInterfaces
             /\ Inst(pi) \in 0..NAcm /\ Has(pi[1], pi[2], d, Inst(pi))
  <2>1. pi = <<pi[1], pi[2]>> /\ pi[1] \in Ports /\ pi[2] \in 1..MaxInterfaces
    BY <1>3 DEF InUse
  <2>2. Inst(pi) \in -1..NAcm /\ Inst(pi) # NoPriv
    BY <1>3, <2>1, PortFields
  <2>3. Inst(pi) \in 0..NAcm
    BY <2>2, EnumAssumption DEF NoPriv
  <2>4. QED BY <1>3, <2>1, <2>3 DEF Has
<1>4. ASSUME NEW d, NEW p \in Ports, NEW i \in 1..MaxInterfaces, NEW n \in 0..NAcm, Has(p, i, d, n)
      PROVE  <<p, i>> \in Refs(d) /\ Inst(<<p, i>>) = n
  BY <1>1, <1>2, <1>4 DEF Has
<1> HIDE DEF Refs, Inst
<1>5. ASSUME NEW d
      PROVE  \A n : n \in {Inst(pi) : pi \in Refs(d)} <=>
               n \in 0..NAcm /\ \E p \in Ports, i \in 1..MaxInterfaces : Has(p, i, d, n)
  <2>1. ASSUME NEW pi \in Refs(d)
        PROVE  Inst(pi) \in 0..NAcm /\ \E p \in Ports, i \in 1..MaxInterfaces : Has(p, i, d, Inst(pi))
    BY <1>3
  <2>2. ASSUME NEW n \in 0..NAcm, NEW p \in Ports, NEW i \in 1..MaxInterfaces, Has(p, i, d, n)
        PROVE  \E pi \in Refs(d) : Inst(pi) = n
    BY <1>4, <2>2
  <2>3. QED BY <2>1, <2>2
<1>6. ASSUME NEW d \in Pooled
      PROVE  /\ devinuse[d] = {Inst(pi) : pi \in Refs(d)}
             /\ \A x, y \in Refs(d) : Inst(x) = Inst(y) => x = y
  <2>1. devinuse[d] \subseteq 0..NAcm
    BY DEF TypeOK
  <2>2. devinuse[d] = {Inst(pi) : pi \in Refs(d)}
    <3>1. \A n \in 0..NAcm : n \in devinuse[d] <=>
                               \E p \in Ports, i \in 1..MaxInterfaces : Has(p, i, d, n)
      BY DEF ClassInv
    <3>2. \A n : n \in {Inst(pi) : pi \in Refs(d)} <=>
            n \in 0..NAcm /\ \E p \in Ports, i \in 1..MaxInterfaces : Has(p, i, d, n)
      BY <1>5
    <3>3. \A n : n \in devinuse[d] <=> n \in {Inst(pi) : pi \in Refs(d)}
      BY <2>1, <3>1, <3>2
    <3>4. QED BY <3>3
  <2>3. ASSUME NEW x \in Refs(d), NEW y \in Refs(d), Inst(x) = Inst(y) PROVE x = y
    <3>1. PICK p \in Ports, i \in 1..MaxInterfaces : x = <<p, i>> /\ Has(p, i, d, Inst(x))
      BY <1>3
    <3>2. PICK q \in Ports, j \in 1..MaxInterfaces : y = <<q, j>> /\ Has(q, j, d, Inst(x))
      BY <1>3, <2>3
    <3>3. Inst(x) \in 0..NAcm
      BY <1>3
    <3>4. p = q /\ i = j
      BY <3>1, <3>2, <3>3 DEF ClassInv
    <3>5. QED BY <3>1, <3>2, <3>4
  <2>4. QED BY <2>2, <2>3
<1>7. {x[2] : x \in {y \in running : y[1] = "acm"}} = {Inst(pi) : pi \in Refs("acm")}
  <2>1. \A y \in running : y = <<y[1], y[2]>> /\ y[2] \in 0..NAcm
    BY DEF ClassInv
  <2>2. \A n : n \in {x[2] : x \in {y \in running : y[1] = "acm"}} <=>
          n \in 0..NAcm /\ <<"acm", n>> \in running
    BY <2>1
  <2>3. \A n : n \in {x[2] : x \in {y \in running : y[1] = "acm"}} <=>
               n \in {Inst(pi) : pi \in Refs("acm")}
    <3>1. \A n \in 0..NAcm : <<"acm", n>> \in running <=>
                               \E p \in Ports, i \in 1..MaxInterfaces : Has(p, i, "acm", n)
      BY DEF ClassInv
    <3>2. \A n : n \in {Inst(pi) : pi \in Refs("acm")} <=>
            n \in 0..NAcm /\ \E p \in Ports, i \in 1..MaxInterfaces : Has(p, i, "acm", n)
      BY <1>5
    <3>3. ASSUME NEW n
          PROVE  n \in 0..NAcm /\ <<"acm", n>> \in running <=> n \in {Inst(pi) : pi \in Refs("acm")}
      BY <3>1, <3>2
    <3>4. QED BY <2>2, <3>3
  <2>4. QED BY <2>3
<1>8. rndis # -1 => \E pi \in Refs("rndis") : pi[1] = rndis
  <2>1. SUFFICES ASSUME rndis # -1 PROVE \E pi \in Refs("rndis") : pi[1] = rndis
    OBVIOUS
  <2>2. rndis \in Ports
    BY <2>1 DEF TypeOK
  <2>3. PICK i \in 1..MaxInterfaces, n \in 0..NAcm : Has(rndis, i, "rndis", n)
    BY <2>1 DEF ClassInv
  <2>4. <<rndis, i>> \in Refs("rndis")
    BY <1>4, <2>2, <2>3
  <2>5. QED BY <2>4
<1>9. QED BY <1>6, <1>7, <1>8 DEF ClassExact, Refs, Inst

\* The hub, its ports and their resources.
LEMMA TreeImplied == IInv /\ TimerInv => TreeExact
<1> SUFFICES ASSUME IInv, TimerInv PROVE TreeExact
  OBVIOUS
<1> USE DEF IInv
<1>1. InUse \ {0} # {} => hub.connected
  BY DEF InUse, HubInv
<1>2. cur.pc = "idle" /\ hub.connected => HasHub(0) /\ hub.timer
  BY DEF HubInv, TimerInv
<1>3. QED BY <1>1, <1>2 DEF TreeExact, ResourceInv

-----------------------------------------------------------------------------
(* Theorems.                                                               *)

\* Through plugging, unplugging and failures at any transfer, usbh_core.c and
\* the class drivers keep their accounts.
THEOREM EnumInvariant == Spec => []IInv
BY InitInv, NextInv, PTL DEF Spec

\* The variables of usbh_core.c and of the class drivers keep their types.
THEOREM EnumTypeCorrect == Spec => []TypeOK
<1>1. IInv => TypeOK
  BY DEF IInv
<1>2. QED BY <1>1, EnumInvariant, PTL

\* usbh_allocate_devaddr never gives two devices the same address, and an
\* address in alloctab is a port's, the enumeration's, or one of the two that
\* usbh_core.c loses.
THEOREM EnumAddrExact == Spec => []AddrExact
BY AddrImplied, EnumInvariant, PTL

\* The pools of the class drivers, their applications and g_rndis_class agree
\* with the interfaces of the connected ports.
THEOREM EnumClassExact == Spec => []ClassExact
BY ClassImplied, EnumInvariant, PTL

\* usbh_hubport_release gives every mutex and every configuration copy back,
\* and the hub goes with its ports and its timer.
THEOREM EnumTreeExact == Spec => []TreeExact
<1>1. Init => TimerInv
  BY DEF Init, TimerInv
<1>2. IInv /\ TimerInv /\ [Next]_vars => TimerInv'
  BY NextTimer
<1>3. QED BY <1>1, <1>2, EnumInvariant, TreeImplied, PTL DEF Spec
=============================================================================
