------------------------------- MODULE UsbhEnum -------------------------------
(***************************************************************************)
(* Enumeration and release of USB devices: core/usbh_core.c                *)
(* (usbh_allocate_devaddr, usbh_enumerate, usbh_hubport_release), the part *)
(* of usbh_hub_events that calls them, and the connect and disconnect      *)
(* handlers of the class drivers of this build: hub, CDC ACM, CDC data and *)
(* RNDIS.                                                                  *)
(*                                                                         *)
(* Everything runs in the hub thread; what interferes is the device, which *)
(* may fail or leave at any control transfer.  One action runs from one    *)
(* control transfer (or class driver call) to the next.  A device is the   *)
(* sequence of the class drivers that match its interfaces ("none" for an  *)
(* interface without one).  Port 0 is the port of the root hub, the others *)
(* are the ports of the one external hub the build allows.                 *)
(***************************************************************************)
EXTENDS Integers, Sequences, FiniteSets, FiniteSetsExt, SequencesExt

CONSTANTS NPorts,     \* ports of the external hub (CONFIG_USBHOST_MAX_EHPORTS)
          AddrMax,    \* highest device address (USB_DEV_ADDR_MAX, 0x7f)
          NAcm,       \* CDC ACM instances (CONFIG_USBHOST_MAX_CDC_ACM_CLASS)
          Devices     \* the devices that may be plugged in

ASSUME EnumAssumption ==
    /\ NPorts \in Nat /\ NAcm \in Nat \ {0}
    /\ AddrMax \in Nat /\ AddrMax > 2
    /\ Devices \subseteq Seq({"hub", "acm", "data", "rndis", "none"})
    /\ \A dev \in Devices : Len(dev) <= 8

\* A hub has one interface (USB 2.0, 11.23.1).  Only TreeExact needs it: the
\* result of usbh_hub_connect counts when no other driver is called after it.
ASSUME HubAssumption ==
    \A dev \in Devices : \A i \in DOMAIN dev : dev[i] = "hub" => Len(dev) = 1

VARIABLES
    next,      \* devgen.next
    alloctab,  \* devgen.alloctab: the addresses in use
    port,      \* the struct usbh_hubport of each port
    devinuse,  \* g_devinuse of the hub and of the CDC ACM driver
    hub,       \* g_hub_class[0]: connected, int_timer
    rndis,     \* g_rndis_class.hport: the port, or -1
    running,   \* class instances whose ..._run was called and not ..._stop
    heap,      \* ports whose raw_config_desc is allocated
    mutexes,   \* live mutexes created for ports
    cur,       \* the enumeration in progress: pc, port, devaddr, i, ret, dev
    leaked     \* history: addresses that no port will ever give back

vars == <<next, alloctab, port, devinuse, hub, rndis, running, heap, mutexes, cur, leaked>>

Ports == 0 .. NPorts
Addrs == 2 .. AddrMax
Pooled == {"hub", "acm"}
PoolSize == [hub |-> 1, acm |-> NAcm]

NoPriv == -1
MaxInterfaces == 8      \* CONFIG_USBHOST_MAX_INTERFACES
Unplugged == [connected |-> FALSE, addr |-> 0, intf |-> <<>>]
Idle == [pc |-> "idle", port |-> 0, addr |-> 0, i |-> 0, ret |-> 0, dev |-> <<>>]

Init ==
    /\ next = 2
    /\ alloctab = {}
    /\ port = [p \in Ports |-> Unplugged]
    /\ devinuse = [d \in Pooled |-> {}]
    /\ hub = [connected |-> FALSE, timer |-> FALSE]
    /\ rndis = -1
    /\ running = {}
    /\ heap = {}
    /\ mutexes = 0
    /\ cur = Idle
    /\ leaked = {}

-----------------------------------------------------------------------------
(* The address allocator.                                                  *)

\* Mutant: devgen.next does not wrap around.
MutAfter(a) == a + 1

\* devgen.next after the address a was looked at.
After(a) == IF a >= AddrMax THEN 2 ELSE a + 1

\* Mutant: the bit of the address is not tested.
MutAllocate == [addr |-> next, next |-> After(next)]

\* usbh_allocate_devaddr: the loop gives up as soon as it has looked at the
\* address it started from, which is the first one it looks at.
usbh_allocate_devaddr ==
    [addr |-> IF next \notin alloctab THEN next ELSE -1, next |-> After(next)]

-----------------------------------------------------------------------------
(* usbh_hubport_release.                                                   *)

HasHub(p) == port[p].connected /\ \E i \in DOMAIN port[p].intf :
                 port[p].intf[i].drv = "hub" /\ port[p].intf[i].priv # NoPriv

\* Mutant: usbh_hub_disconnect forgets the ports of the hub.
MutSubtree(p) == {q \in Ports : port[q].connected /\ q = p}

\* A port and, through usbh_hub_disconnect, the ports of the hub on it.
Subtree(p) == {q \in Ports : port[q].connected /\ (q = p \/ (HasHub(p) /\ q # 0))}

\* The instances (driver, number) that the interfaces of the ports of S refer to.
Instances(S) == {<<f.drv, f.priv>> : f \in UNION {ToSet(port[q].intf) : q \in S}}

\* Mutant: the disconnect handler runs for the first interface only.
MutHeld(S) == {<<port[q].intf[1].drv, port[q].intf[1].priv>> :
                   q \in {r \in S : port[r].intf # <<>> /\ port[r].intf[1].priv # NoPriv}}

\* Of those, the ones a connect handler has stored in priv.
Held(S) == {x \in Instances(S) : x[2] # NoPriv}

\* The instances whose interface got a device name: their users are stopped.
Named(S) == {<<f.drv, f.priv>> : f \in
               {g \in UNION {ToSet(port[q].intf) : q \in S} : g.priv # NoPriv /\ g.name}}

\* __usbh_free_devaddr ignores the highest address.
Freed(S) == {port[q].addr : q \in S} \ {0, AddrMax}

\* Releasing a port: its address, its class instances (their URBs are killed,
\* the users stopped, the pool entries cleared) and its mutex are given back,
\* and so are those of the ports of a hub on it.
usbh_hubport_release(p) ==
    LET S == Subtree(p) IN
    /\ alloctab' = alloctab \ Freed(S)
    /\ next' = Min(Freed(S) \union {next})
    /\ leaked' = leaked \union ({port[q].addr : q \in S} \intersect {AddrMax})
                       \union (IF cur.pc = "setaddr" THEN {cur.addr} ELSE {})
    /\ devinuse' = [d \in Pooled |-> devinuse[d] \ {x[2] : x \in {y \in Held(S) : y[1] = d}}]
    /\ hub' = IF HasHub(p) THEN [connected |-> FALSE, timer |-> FALSE] ELSE hub
    /\ rndis' = IF \E x \in Held(S) : x[1] = "rndis" THEN -1 ELSE rndis
    /\ running' = running \ Named(S)

\* The port records after the release; a released port keeps its dev_addr,
\* which nothing reads before usbh_enumerate sets it to 0.
Released(p) == [q \in Ports |-> IF q \in Subtree(p) THEN Unplugged ELSE port[q]]

-----------------------------------------------------------------------------
(* The calls in usbh_hub_events.  A port of the external hub only has      *)
(* events while the hub is connected.                                      *)

Active(p) == cur.pc = "idle" /\ (p # 0 => hub.connected)

\* A port was found connected and enabled after its reset: the previous
\* device is released, the port zeroed and given a new mutex, and the
\* enumeration starts at address 0.
Connected(p, dev) ==
    /\ Active(p)
    /\ usbh_hubport_release(p)
    /\ port' = [Released(p) EXCEPT ![p].connected = TRUE]
    /\ mutexes' = mutexes - Cardinality(Subtree(p)) + 1
    /\ cur' = [pc |-> "desc8", port |-> p, addr |-> 0, i |-> 0, ret |-> 0, dev |-> dev]
    /\ UNCHANGED heap

\* A port was found empty, or not enabled after its reset.
Disconnected(p) ==
    /\ Active(p)
    /\ usbh_hubport_release(p)
    /\ port' = Released(p)
    /\ mutexes' = mutexes - Cardinality(Subtree(p))
    /\ UNCHANGED <<heap, cur>>

-----------------------------------------------------------------------------
(* usbh_enumerate.                                                         *)

classVars == <<devinuse, hub, rndis, running>>

\* errout frees raw_config_desc and returns.
Return == heap' = heap \ {cur.port} /\ cur' = Idle

\* A negative result makes usbh_hub_events release the port again.
Fail ==
    /\ Return
    /\ usbh_hubport_release(cur.port)
    /\ port' = Released(cur.port)
    /\ mutexes' = mutexes - Cardinality(Subtree(cur.port))

\* A control transfer that fails ends the enumeration.  When it is
\* SET_ADDRESS the address is in alloctab but not in dev_addr yet, so the
\* release does not give it back.
TransferFails ==
    /\ cur.pc \in {"desc8", "setaddr", "desc", "cfg9", "cfg", "setcfg"}
    /\ Fail

\* The first 8 bytes of the device descriptor have arrived: an address is
\* allocated.  When there is none, ret still holds the transfer's result.
Desc8Arrives ==
    /\ cur.pc = "desc8"
    /\ LET a == usbh_allocate_devaddr IN
       /\ next' = a.next
       /\ IF a.addr < 0
          THEN Return /\ UNCHANGED alloctab
          ELSE /\ alloctab' = alloctab \union {a.addr}
               /\ cur' = [cur EXCEPT !.pc = "setaddr", !.addr = a.addr]
               /\ UNCHANGED heap
    /\ UNCHANGED <<port, mutexes, leaked, classVars>>

SetAddressDone ==
    /\ cur.pc = "setaddr"
    /\ port' = [port EXCEPT ![cur.port].addr = cur.addr]
    /\ cur' = [cur EXCEPT !.pc = "desc"]
    /\ UNCHANGED <<next, alloctab, devinuse, hub, rndis, running, heap, mutexes, leaked>>

\* The full device descriptor, then the first 9 bytes of the configuration.
DescriptorArrives ==
    /\ cur.pc \in {"desc", "cfg9"}
    /\ cur' = [cur EXCEPT !.pc = IF @ = "desc" THEN "cfg9" ELSE "cfg"]
    /\ UNCHANGED <<next, alloctab, port, devinuse, hub, rndis, running, heap, mutexes, leaked>>

\* wTotalLength is larger than the request buffer.
ConfigTooLong == cur.pc = "cfg9" /\ Fail

\* The whole configuration: parse_config_descriptor sets bNumInterfaces and
\* clears the interfaces, then its copy is allocated.
ConfigArrives ==
    /\ cur.pc = "cfg"
    /\ port' = [port EXCEPT ![cur.port].intf =
                   [i \in DOMAIN cur.dev |-> [drv |-> "none", priv |-> NoPriv, name |-> FALSE]]]
    /\ heap' = heap \union {cur.port}
    /\ cur' = [cur EXCEPT !.pc = "setcfg"]
    /\ UNCHANGED <<next, alloctab, devinuse, hub, rndis, running, mutexes, leaked>>

\* The configuration does not parse, or there is no memory for the copy.
ConfigRefused == cur.pc = "cfg" /\ Fail

SetConfigurationDone ==
    /\ cur.pc = "setcfg"
    /\ cur' = [cur EXCEPT !.pc = "load", !.i = 1]
    /\ UNCHANGED <<next, alloctab, port, devinuse, hub, rndis, running, heap, mutexes, leaked>>

-----------------------------------------------------------------------------
(* The class drivers.                                                      *)

Loading(drv) == cur.pc = "load" /\ cur.i \in DOMAIN cur.dev /\ cur.dev[cur.i] = drv

\* The interface gets its class driver, the instance its connect handler
\* stored in priv and, when the handler got so far, a device name; the
\* result of the last handler called is the result of the enumeration.
Connect(drv, priv, name, ret) ==
    /\ port' = [port EXCEPT ![cur.port].intf[cur.i] = [drv |-> drv, priv |-> priv, name |-> name]]
    /\ cur' = [cur EXCEPT !.i = @ + 1, !.ret = ret]
    /\ UNCHANGED <<next, alloctab, heap, mutexes, leaked>>

\* usbh_find_class_driver finds none: the interface is skipped.
SkipInterface ==
    /\ Loading("none")
    /\ cur' = [cur EXCEPT !.i = @ + 1]
    /\ UNCHANGED <<next, alloctab, port, devinuse, hub, rndis, running, heap, mutexes, leaked>>

FreeInstances(drv) == (0 .. PoolSize[drv] - 1) \ devinuse[drv]

\* The pool of a driver is empty.
PoolEmpty(drv) ==
    /\ Loading(drv) /\ FreeInstances(drv) = {}
    /\ Connect(drv, NoPriv, FALSE, -1)
    /\ UNCHANGED classVars

usbh_cdc_acm_connect ==
    /\ Loading("acm") /\ FreeInstances("acm") # {}
    /\ LET n == Min(FreeInstances("acm")) IN
       /\ devinuse' = [devinuse EXCEPT !["acm"] = @ \union {n}]
       /\ running' = running \union {<<"acm", n>>}
       /\ Connect("acm", n, TRUE, 0)
    /\ UNCHANGED <<hub, rndis>>

usbh_cdc_data_connect ==
    /\ Loading("data")
    /\ Connect("data", NoPriv, FALSE, 0)
    /\ UNCHANGED classVars

\* The one instance is cleared and taken over whoever has it; the queries
\* that follow may fail.
usbh_rndis_connect(ok) ==
    /\ Loading("rndis")
    /\ rndis' = cur.port
    /\ running' = IF ok THEN running \union {<<"rndis", 0>>} ELSE running
    /\ Connect("rndis", 0, ok, IF ok THEN 0 ELSE -1)
    /\ UNCHANGED <<devinuse, hub>>

\* A request to the hub fails before it is marked connected, the creation
\* of its timer after that.
usbh_hub_connect(outcome) ==
    /\ Loading("hub") /\ FreeInstances("hub") # {}
    /\ devinuse' = [devinuse EXCEPT !["hub"] = @ \union {0}]
    /\ hub' = [connected |-> outcome # "request", timer |-> outcome = "ok"]
    /\ Connect("hub", 0, outcome # "request", IF outcome = "ok" THEN 0 ELSE -1)
    /\ UNCHANGED <<rndis, running>>

\* Every interface was looked at.
EnumerateEnds ==
    /\ cur.pc = "load" /\ cur.i = Len(cur.dev) + 1
    /\ \/ cur.ret < 0 /\ Fail
       \/ cur.ret >= 0 /\ Return /\ UNCHANGED <<next, alloctab, leaked, port, mutexes, classVars>>

HubEvent == \E p \in Ports : Disconnected(p) \/ \E dev \in Devices : Connected(p, dev)

Enumerate ==
    \/ TransferFails \/ Desc8Arrives \/ SetAddressDone \/ DescriptorArrives
    \/ ConfigTooLong \/ ConfigArrives \/ ConfigRefused
    \/ SetConfigurationDone \/ SkipInterface \/ EnumerateEnds

ClassConnect ==
    \/ \E drv \in Pooled : PoolEmpty(drv)
    \/ usbh_cdc_acm_connect \/ usbh_cdc_data_connect
    \/ \E ok \in BOOLEAN : usbh_rndis_connect(ok)
    \/ \E outcome \in {"request", "timer", "ok"} : usbh_hub_connect(outcome)

Next == HubEvent \/ Enumerate \/ ClassConnect

Spec == Init /\ [][Next]_vars

-----------------------------------------------------------------------------
(* Properties.                                                             *)

Intf == [drv : {"hub", "acm", "data", "rndis", "none"}, priv : -1 .. NAcm, name : BOOLEAN]

\* The variables of usbh_core.c and of the class drivers keep their types.
TypeOK ==
    /\ next \in Addrs /\ alloctab \subseteq Addrs /\ leaked \subseteq Addrs
    /\ port \in [Ports -> [connected : BOOLEAN, addr : Addrs \union {0}, intf : Seq(Intf)]]
    /\ devinuse \in [Pooled -> SUBSET (0 .. NAcm)]
    /\ hub \in [connected : BOOLEAN, timer : BOOLEAN]
    /\ rndis \in Ports \union {-1} /\ heap \subseteq Ports /\ mutexes \in Nat
    /\ cur.pc \in {"idle", "desc8", "setaddr", "desc", "cfg9", "cfg", "setcfg", "load"}
    /\ cur.port \in Ports /\ cur.addr \in Addrs \union {0} /\ cur.ret \in {-1, 0}

InUse == {p \in Ports : port[p].connected}
Owners == {p \in InUse : port[p].addr # 0}

\* Address bookkeeping: two devices never have the same address, and through
\* plugging, unplugging, failing enumerations and hubs that leave with their
\* devices an address in alloctab belongs to one connected port, to the
\* enumeration in progress, or to the two cases usbh_core.c loses: a failed
\* SET_ADDRESS and the highest address.
AddrExact ==
    LET inflight == IF cur.pc = "setaddr" THEN {cur.addr} ELSE {} IN
    /\ \A p, q \in Owners : port[p].addr = port[q].addr => p = q
    /\ alloctab = {port[p].addr : p \in Owners} \union inflight \union leaked
    /\ (inflight \union leaked) \intersect {port[p].addr : p \in Owners} = {}

\* Class instances: a pool entry of the hub or CDC ACM driver is in use
\* exactly when one interface of a connected port refers to it, no two
\* interfaces share one, an application runs exactly on the CDC ACM
\* instances in use, and g_rndis_class never points to a released port.
ClassExact ==
    LET Refs(d) == {pi \in InUse \X (1 .. MaxInterfaces) :
                      /\ pi[2] \in DOMAIN port[pi[1]].intf
                      /\ port[pi[1]].intf[pi[2]].drv = d
                      /\ port[pi[1]].intf[pi[2]].priv # NoPriv}
        Inst(pi) == port[pi[1]].intf[pi[2]].priv
    IN
    /\ \A d \in Pooled :
           /\ devinuse[d] = {Inst(pi) : pi \in Refs(d)}
           /\ \A x, y \in Refs(d) : Inst(x) = Inst(y) => x = y
    /\ {x[2] : x \in {y \in running : y[1] = "acm"}} = {Inst(pi) : pi \in Refs("acm")}
    /\ rndis # -1 => \E pi \in Refs("rndis") : pi[1] = rndis

\* Resources of a port: there is one mutex per connected port, between
\* enumerations no configuration copy is allocated, a device behind the
\* external hub is connected only while the hub is, and then the hub is the
\* device of the root port with its timer (usbh_hub_events starts it).
TreeExact ==
    /\ mutexes = Cardinality(InUse)
    /\ heap \subseteq {p \in {cur.port} : cur.pc # "idle"}
    /\ InUse \ {0} # {} => hub.connected
    /\ cur.pc = "idle" /\ hub.connected => HasHub(0) /\ hub.timer
=============================================================================
