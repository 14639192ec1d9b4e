--------------------------- MODULE KernelObjects ---------------------------
(***************************************************************************)
(* The tree of kernel objects (core/kobj) and the requests tasks make of   *)
(* it.  A node is named by its path; tree[n] is the array of children of   *)
(* an inner node, each by its own name.                                    *)
(* The tree is built by the first request, without a lock; entries for     *)
(* tasks, devices, ARP entries and drivers are not in the tree but found   *)
(* by name when a path is resolved.  A value is its tag and a number: an   *)
(* enum index, a count, the task a value is about, 0 where it is opaque.   *)
(* A path is the sequence of what stands between its slashes, after the    *)
(* leading ones.                                                           *)
(***************************************************************************)
EXTENDS Integers, Sequences, FiniteSets, SequencesExt

CONSTANTS Callers,      \* tasks that make requests
          Slots,        \* MAX_TASKS slots of the scheduler's table, 1..n
          MaxId,        \* bound on the task ids that are started
          MaxItems,     \* the 64 of "KChildInfo items[64]"
          Requests,     \* the requests that are made
          MaxRequests,  \* bound on their number
          KobjDrivers,      \* names of registered drivers, a sequence
          BlockNames, NetNames,  \* the devices registered at boot, sequences
          PciCount      \* devices pci::init found

VARIABLES tree, initialized, inits,
          ids, nextId, arps, driversLoaded, power, route,
          stage, req, got, left, reply, made, initsOverlap

treeVars == <<tree, initialized, inits, initsOverlap>>
world == <<ids, nextId, arps, driversLoaded>>
settings == <<power, route>>
callVars == <<stage, req, got, left, reply, made>>
kobjVars == <<treeVars, world, settings, callVars>>

(***************************************************************************)
(* Node definitions.                                                       *)
(***************************************************************************)
Inner(id) == [id |-> id, type |-> "Struct", get |-> FALSE, attached |-> TRUE]
Leaves(parent, names, type) ==
  [i \in DOMAIN names |->
     [id |-> Append(parent, names[i]), type |-> type, get |-> TRUE, attached |-> TRUE]]
Entry(id) == [id |-> id, type |-> "Struct", get |-> FALSE, attached |-> FALSE]
Fields(parent, names, type) ==
  [i \in DOMAIN names |->
     [id |-> Append(parent, names[i]), type |-> type, get |-> FALSE, attached |-> FALSE]]

Root == <<>>
Pid == <<"proc", "<pid>">>
BlockEntry == <<"dev", "block", "<device>">>
PciEntry == <<"dev", "pci", "<device>">>
NetEntry == <<"dev", "net", "<device>">>
ArpEntry == <<"net", "arp", "<entry>">>
DriverEntry == <<"driver", "<driver>">>

CoreNodes ==
  <<Inner(Root), Inner(<<"sys">>), Inner(<<"sys", "cpu">>)>>
  \o Leaves(<<"sys", "cpu">>, <<"count", "ticks">>, "U64")
  \o <<Inner(<<"sys", "mem">>)>>
  \o Leaves(<<"sys", "mem">>, <<"total_kb", "free_kb", "heap_used", "heap_capacity",
                                "heap_subheaps">>, "U64")
  \o <<Inner(<<"sys", "power">>)>> \o Leaves(<<"sys", "power">>, <<"state">>, "Enum")
  \o <<Inner(<<"sys", "log">>)>> \o Leaves(<<"sys", "log">>, <<"route">>, "Enum")
  \o <<Inner(<<"fs">>)>> \o Leaves(<<"fs">>, <<"active_backend">>, "Str")
  \o Leaves(<<"fs">>, <<"fallback_ready", "mounted", "writable">>, "Bool")
  \o Leaves(<<"fs">>, <<"block_device", "root_path">>, "Str")
  \o Leaves(<<"fs">>, <<"cluster_size", "root_cluster">>, "U64")

ProcNodes ==
  <<Inner(<<"proc">>)>> \o Leaves(<<"proc">>, <<"count">>, "U64")
  \o <<Entry(Pid)>> \o Fields(Pid, <<"id">>, "U64") \o Fields(Pid, <<"state">>, "Enum")
  \o Fields(Pid, <<"cpu">>, "I64") \o Fields(Pid, <<"cpu_ticks">>, "U64")
  \o Fields(Pid, <<"name">>, "Str")

PciFieldNames == <<"bus", "device", "function", "vendor_id", "device_id", "class_code",
                   "subclass", "prog_if", "revision", "irq_line">>

DeviceNodes ==
  <<Inner(<<"dev">>), Inner(<<"dev", "block">>)>>
  \o Leaves(<<"dev", "block">>, <<"count">>, "U64")
  \o <<Entry(BlockEntry)>> \o Fields(BlockEntry, <<"name">>, "Str")
  \o Fields(BlockEntry, <<"size_kb", "block_size">>, "U64")
  \o Fields(BlockEntry, <<"removable">>, "Bool")
  \o <<Inner(<<"dev", "pci">>)>> \o Leaves(<<"dev", "pci">>, <<"count">>, "U64")
  \o <<Entry(PciEntry)>> \o Fields(PciEntry, PciFieldNames, "U64")
  \o <<Inner(<<"dev", "sound">>)>>
  \o Leaves(<<"dev", "sound">>, <<"active_driver">>, "Str")
  \o Leaves(<<"dev", "sound">>, <<"initialized", "playing">>, "Bool")
  \o Leaves(<<"dev", "sound">>, <<"sample_rate", "volume_left", "volume_right",
                                  "mix_channels_active">>, "U64")

NetworkNodes ==
  <<Inner(<<"dev", "net">>)>> \o Leaves(<<"dev", "net">>, <<"count">>, "U64")
  \o <<Entry(NetEntry)>> \o Fields(NetEntry, <<"name", "mac">>, "Str")
  \o Fields(NetEntry, <<"mtu">>, "U64") \o Fields(NetEntry, <<"link_up">>, "Bool")
  \o Fields(NetEntry, <<"ipv4_address">>, "Str")
  \o <<Inner(<<"net">>)>> \o Leaves(<<"net">>, <<"device_count">>, "U64")
  \o Leaves(<<"net">>, <<"primary_device">>, "Str")
  \o Leaves(<<"net">>, <<"background_rx">>, "Bool")
  \o <<Inner(<<"net", "ipv4">>)>>
  \o Leaves(<<"net", "ipv4">>, <<"configured_count">>, "U64")
  \o <<Inner(<<"net", "arp">>)>> \o Leaves(<<"net", "arp">>, <<"count">>, "U64")
  \o <<Entry(ArpEntry)>> \o Fields(ArpEntry, <<"ip", "mac">>, "Str")

DriverNodes ==
  <<Inner(<<"driver">>)>>
  \o Leaves(<<"driver">>, <<"registered_count", "loaded_count">>, "U64")
  \o <<Entry(DriverEntry)>> \o Fields(DriverEntry, <<"name">>, "Str")
  \o Fields(DriverEntry, <<"type">>, "Enum") \o Fields(DriverEntry, <<"loaded">>, "Bool")

RegisterOrder == <<CoreNodes, ProcNodes, DeviceNodes, NetworkNodes, DriverNodes>>

AllNodes == CoreNodes \o ProcNodes \o DeviceNodes \o NetworkNodes \o DriverNodes
NodeIds == {AllNodes[i].id : i \in DOMAIN AllNodes}
InnerNodes == {d.id : d \in {d \in ToSet(AllNodes) : d.attached /\ ~d.get}}
Schema == [n \in NodeIds |-> CHOOSE d \in ToSet(AllNodes) : d.id = n]
WritableNodes == {<<"sys", "power", "state">>, <<"sys", "log", "route">>}

Labels(n) ==
  CASE n = <<"sys", "power", "state">> -> <<"running", "suspend", "hibernate">>
    [] n = <<"sys", "log", "route">> -> <<"default", "serial", "disabled">>
    [] n = Append(Pid, "state") -> <<"ready", "running", "blocked", "terminated">>
    [] n = Append(DriverEntry, "type") ->
         <<"none", "sound", "block", "network", "filesystem">>
    [] OTHER -> <<>>

(***************************************************************************)
(* Building the tree.  register_node clears the node and attaches it to    *)
(* its parent; init runs the five lists in order and then sets the flag.   *)
(***************************************************************************)
Register(tr, d) ==
  LET cleared == IF d.id \in InnerNodes THEN [tr EXCEPT ![d.id] = <<>>] ELSE tr
  IN  IF d.attached /\ d.id # Root
        THEN [cleared EXCEPT ![Front(d.id)] = Append(@, Last(d.id))]
        ELSE cleared

RegisterAll(tr, defs) == FoldLeft(Register, tr, defs)

FindChild(n, name) ==
  IF n \in InnerNodes /\ name \in ToSet(tree[n]) THEN Append(n, name) ELSE <<"?">>

(***************************************************************************)
(* Resolving a path.                                                       *)
(***************************************************************************)
None == <<"?">>
Nowhere == [node |-> None, kind |-> "none", who |-> 0, slot |-> 0]
Static(n) == [Nowhere EXCEPT !.node = n]
Entity(n, kind, who, slot) == [node |-> n, kind |-> kind, who |-> who, slot |-> slot]

Live == {s \in Slots : ids[s] # 0}
Under(p, prefix) == Len(p) > Len(prefix) /\ SubSeq(p, 1, Len(prefix)) = prefix
Rest(p, prefix) == SubSeq(p, Len(prefix) + 1, Len(p))

\* What follows an entry: nothing, or the name of one of its fields.
EntityPath(rest, entry, names, kind, who, slot) ==
  IF Len(rest) = 1 THEN Entity(entry, kind, who, slot)
  ELSE IF Len(rest) = 2 /\ rest[2] \in names
         THEN Entity(Append(entry, rest[2]), kind, who, slot)
         ELSE Nowhere

\* Mutant of ResolveProcPath: one field is forgotten.
ResolveProcPathShort(p) ==
  LET rest == Tail(p)
      named == {s \in Live : ToString(ids[s]) = rest[1]}
  IN  IF p[1] # "proc" THEN Nowhere
      ELSE IF rest \in {<<>>, <<"">>} THEN Static(<<"proc">>)
      ELSE IF rest = <<"count">> THEN Static(<<"proc", "count">>)
      ELSE IF named = {} THEN Nowhere
      ELSE LET s == CHOOSE s \in named : TRUE
           IN  EntityPath(rest, Pid, {"id", "state", "cpu", "name"}, "proc", ids[s], s)

ResolveProcPath(p) ==
  LET rest == Tail(p)
      named == {s \in Live : ToString(ids[s]) = rest[1]}
  IN  IF p[1] # "proc" THEN Nowhere
      ELSE IF rest \in {<<>>, <<"">>} THEN Static(<<"proc">>)
      ELSE IF rest = <<"count">> THEN Static(<<"proc", "count">>)
      ELSE IF named = {} THEN Nowhere
      ELSE LET s == CHOOSE s \in named : TRUE
           IN  EntityPath(rest, Pid, {"id", "state", "cpu", "cpu_ticks", "name"},
                          "proc", ids[s], s)

\* The first of the registered names that is asked for, 0 if none is.
IndexOf(names, name) ==
  IF name \in ToSet(names) THEN CHOOSE i \in DOMAIN names : names[i] = name ELSE 0

ResolveBlockPath(p) ==
  LET rest == Rest(p, <<"dev", "block">>)
      i == IndexOf(BlockNames, rest[1])
  IN  IF ~Under(p, <<"dev", "block">>) THEN Nowhere
      ELSE IF rest = <<"">> THEN Static(<<"dev", "block">>)
      ELSE IF i = 0 THEN Nowhere
      ELSE EntityPath(rest, BlockEntry, {"name", "size_kb", "block_size", "removable"},
                      "block", i, 0)

\* parse_u64_segment and the test that there is such an entry, counting from 0.
Numbered(seg, count) == {i \in 1..count : ToString(i - 1) = seg}

ResolvePciPath(p) ==
  LET rest == Rest(p, <<"dev", "pci">>)
      named == Numbered(rest[1], PciCount)
  IN  IF ~Under(p, <<"dev", "pci">>) THEN Nowhere
      ELSE IF rest = <<"">> THEN Static(<<"dev", "pci">>)
      ELSE IF rest = <<"count">> THEN Static(<<"dev", "pci", "count">>)
      ELSE IF named = {} THEN Nowhere
      ELSE EntityPath(rest, PciEntry, ToSet(PciFieldNames), "pci",
                      CHOOSE i \in named : TRUE, 0)

ResolveNetDevicePath(p) ==
  LET rest == Rest(p, <<"dev", "net">>)
      i == IndexOf(NetNames, rest[1])
  IN  IF ~Under(p, <<"dev", "net">>) THEN Nowhere
      ELSE IF rest = <<"">> THEN Static(<<"dev", "net">>)
      ELSE IF rest = <<"count">> THEN Static(<<"dev", "net", "count">>)
      ELSE IF i = 0 THEN Nowhere
      ELSE EntityPath(rest, NetEntry, {"name", "mac", "mtu", "link_up", "ipv4_address"},
                      "net", i, 0)

ResolveNetStackPath(p) ==
  LET rest == Tail(p)
      named == Numbered(rest[2], arps)
  IN  IF p[1] # "net" THEN Nowhere
      ELSE IF rest \in {<<>>, <<"">>} THEN Static(<<"net">>)
      ELSE IF rest \in {<<"device_count">>, <<"primary_device">>, <<"background_rx">>,
                        <<"ipv4">>, <<"ipv4", "configured_count">>, <<"arp">>,
                        <<"arp", "count">>}
             THEN Static(<<"net">> \o rest)
      ELSE IF rest[1] # "arp" \/ Len(rest) < 2 THEN Nowhere
      ELSE IF named = {} THEN Nowhere
      ELSE EntityPath(Tail(rest), ArpEntry, {"ip", "mac"}, "arp",
                      CHOOSE i \in named : TRUE, 0)

ResolveDriverPath(p) ==
  LET rest == Tail(p)
      i == IndexOf(KobjDrivers, rest[1])
  IN  IF ~Under(p, <<"driver">>) THEN Nowhere
      ELSE IF rest = <<"">> THEN Static(<<"driver">>)
      ELSE IF rest \in {<<"registered_count">>, <<"loaded_count">>}
             THEN Static(<<"driver">> \o rest)
      ELSE IF i = 0 THEN Nowhere
      ELSE EntityPath(rest, DriverEntry, {"name", "type", "loaded"}, "driver", i, 0)

\* The walk from the root that skips empty segments.
Walk(p) ==
  LET step(n, seg) == IF n = None \/ seg = "" THEN n ELSE FindChild(n, seg)
  IN  Static(FoldLeft(step, Root, p))

ResolveInternal(p) ==
  LET tries == <<ResolveProcPath(p), ResolveBlockPath(p), ResolvePciPath(p),
                 ResolveNetDevicePath(p), ResolveNetStackPath(p), ResolveDriverPath(p)>>
      hits == {i \in DOMAIN tries : tries[i].node # None}
  IN  IF p = <<>> THEN Static(Root)
      ELSE IF hits = {} THEN Walk(p)
      ELSE tries[CHOOSE i \in hits : \A j \in hits : i <= j]

IsDynamicLeaf(r) == r.kind # "none" /\ r.node # Pid

FillNodeInfo(r) ==
  [type |-> Schema[r.node].type,
   readable |-> IsDynamicLeaf(r) \/ Schema[r.node].get,
   writable |-> r.node \in WritableNodes,
   labels |-> Labels(r.node)]

(***************************************************************************)
(* Values.                                                                 *)
(***************************************************************************)
Val(tag, n) == [tag |-> tag, n |-> n]
Err == Val("Err", 0)

CoreGet(n) ==
  CASE n = <<"sys", "power", "state">> -> Val("Enum", power)
    [] n = <<"sys", "log", "route">> -> Val("Enum", route)
    [] n \in {<<"fs", "fallback_ready">>, <<"fs", "mounted">>, <<"fs", "writable">>} ->
         Val("Bool", 0)
    [] n \in {<<"fs", "active_backend">>, <<"fs", "block_device">>, <<"fs", "root_path">>} ->
         Val("Str", 0)
    [] OTHER -> Val("U64", 0)

DeviceGet(n) ==
  CASE n = <<"dev", "block", "count">> -> Val("U64", Len(BlockNames))
    [] n = <<"dev", "pci", "count">> -> Val("U64", PciCount)
    [] n = <<"dev", "sound", "active_driver">> -> Val("Str", 0)
    [] n \in {<<"dev", "sound", "initialized">>, <<"dev", "sound", "playing">>} ->
         Val("Bool", 0)
    [] OTHER -> Val("U64", 0)

NetworkGet(n) ==
  CASE n \in {<<"dev", "net", "count">>, <<"net", "device_count">>} -> Val("U64", Len(NetNames))
    [] n = <<"net", "primary_device">> -> Val("Str", 0)
    [] n = <<"net", "background_rx">> -> Val("Bool", 0)
    [] n = <<"net", "arp", "count">> -> Val("U64", arps)
    [] OTHER -> Val("U64", 0)

DriverGet(n) ==
  IF n = <<"driver", "registered_count">> THEN Val("U64", Len(KobjDrivers))
  ELSE Val("U64", Cardinality(driversLoaded))

\* The get_fn of each definition.
ReadNode(n) ==
  CASE n = <<"proc", "count">> -> Val("U64", Cardinality(Live))
    [] n \in {d.id : d \in ToSet(CoreNodes)} -> CoreGet(n)
    [] n \in {d.id : d \in ToSet(DeviceNodes)} -> DeviceGet(n)
    [] n \in {d.id : d \in ToSet(NetworkNodes)} -> NetworkGet(n)
    [] OTHER -> DriverGet(n)

\* A task's state is one of the first three; its name is a view of the slot.
ProcQuery(r, state) ==
  CASE Last(r.node) = "id" -> Val("U64", r.who)
    [] Last(r.node) = "state" -> Val("Enum", state)
    [] Last(r.node) = "cpu" -> Val("I64", 0)
    [] Last(r.node) = "cpu_ticks" -> Val("U64", 0)
    [] Last(r.node) = "name" -> Val("Str", ids[r.slot])
    [] OTHER -> Err

DeviceQuery(r) ==
  CASE r.kind = "block" /\ Last(r.node) = "name" -> Val("Str", r.who)
    [] r.kind = "block" /\ Last(r.node) \in {"size_kb", "block_size"} -> Val("U64", r.who)
    [] r.kind = "block" /\ Last(r.node) = "removable" -> Val("Bool", 0)
    [] r.kind = "pci" /\ Last(r.node) \in ToSet(PciFieldNames) -> Val("U64", r.who)
    [] OTHER -> Err

NetworkQuery(r) ==
  CASE r.kind = "net" /\ Last(r.node) \in {"name", "mac", "ipv4_address"} -> Val("Str", r.who)
    [] r.kind = "net" /\ Last(r.node) = "mtu" -> Val("U64", r.who)
    [] r.kind = "net" /\ Last(r.node) = "link_up" -> Val("Bool", 0)
    [] r.kind = "arp" /\ Last(r.node) \in {"ip", "mac"} -> Val("Str", r.who)
    [] OTHER -> Err

\* driver_type_index gives sound, block, network in turn here.
DriverQuery(r) ==
  CASE Last(r.node) = "name" -> Val("Str", r.who)
    [] Last(r.node) = "type" -> Val("Enum", ((r.who - 1) % 3) + 1)
    [] Last(r.node) = "loaded" -> Val("Bool", IF KobjDrivers[r.who] \in driversLoaded THEN 1 ELSE 0)
    [] OTHER -> Err

QueryDynamic(r, state) ==
  CASE r.kind = "proc" -> ProcQuery(r, state)
    [] r.kind \in {"block", "pci"} -> DeviceQuery(r)
    [] r.kind \in {"net", "arp"} -> NetworkQuery(r)
    [] r.kind = "driver" -> DriverQuery(r)

\* What kquery puts in out_value once it has resolved the path.
Query(r, state) ==
  IF IsDynamicLeaf(r) THEN QueryDynamic(r, state)
  ELSE IF ~Schema[r.node].get THEN Err
  ELSE ReadNode(r.node)

\* kval_render, for what the properties tell apart.
Render(v, n) ==
  IF v.tag # "Enum" THEN v.tag
  ELSE IF n # None /\ v.n < Len(Labels(n)) THEN Labels(n)[v.n + 1]
  ELSE "<invalid-enum>"

(***************************************************************************)
(* Listing: the names and types of all children.                           *)
(***************************************************************************)
Items(names, type) == [i \in DOMAIN names |-> [name |-> names[i], type |-> type]]
Numbers(count) == [i \in 1..count |-> ToString(i - 1)]

\* How many of the children fit the caller's array.
StoredItems(children) == Min({Len(children), MaxItems})

ProcFields == Items(<<"id">>, "U64") \o Items(<<"state">>, "Enum") \o Items(<<"cpu">>, "I64")
              \o Items(<<"cpu_ticks">>, "U64") \o Items(<<"name">>, "Str")
BlockFields == Items(<<"name">>, "Str") \o Items(<<"size_kb", "block_size">>, "U64")
               \o Items(<<"removable">>, "Bool")
NetFields == Items(<<"name", "mac">>, "Str") \o Items(<<"mtu">>, "U64")
             \o Items(<<"link_up">>, "Bool") \o Items(<<"ipv4_address">>, "Str")
ArpFields == Items(<<"ip", "mac">>, "Str")
DriverFields == Items(<<"name">>, "Str") \o Items(<<"type">>, "Enum")
                \o Items(<<"loaded">>, "Bool")

\* snapshot_tasks goes through the slots in order.
Snapshot == LET order == SelectSeq([s \in 1..Cardinality(Slots) |-> s], LAMBDA s : s \in Live)
            IN  [i \in DOMAIN order |-> ToString(ids[order[i]])]

ProcList(r) ==
  IF r.node = <<"proc">>
    THEN Items(<<"count">>, "U64") \o Items(Snapshot, "Struct")
    ELSE ProcFields

DeviceList(r) ==
  CASE r.node = <<"dev", "block">> ->
         Items(<<"count">>, "U64") \o Items(BlockNames, "Struct")
    [] r.node = <<"dev", "pci">> ->
         Items(<<"count">>, "U64") \o Items(Numbers(PciCount), "Struct")
    [] r.node = BlockEntry -> BlockFields
    [] OTHER -> Items(PciFieldNames, "U64")

NetworkList(r) ==
  CASE r.node = <<"dev", "net">> ->
         Items(<<"count">>, "U64") \o Items(NetNames, "Struct")
    [] r.node = <<"net", "arp">> ->
         Items(<<"count">>, "U64") \o Items(Numbers(arps), "Struct")
    [] r.node = ArpEntry -> ArpFields
    [] OTHER -> NetFields

DriverList(r) ==
  IF r.node = <<"driver">>
    THEN Items(<<"registered_count", "loaded_count">>, "U64")
                \o Items(KobjDrivers, "Struct")
    ELSE DriverFields

AttachedList(n) ==
  IF n \notin InnerNodes THEN <<>>
  ELSE [i \in DOMAIN tree[n] |->
          [name |-> tree[n][i], type |-> Schema[Append(n, tree[n][i])].type]]

Klist(r) ==
  CASE r.node = None -> <<>>
    [] r.node \in {<<"proc">>, Pid} -> ProcList(r)
    [] r.node \in {<<"dev", "block">>, BlockEntry, <<"dev", "pci">>, PciEntry} ->
         DeviceList(r)
    [] r.node \in {<<"dev", "net">>, NetEntry, <<"net", "arp">>, ArpEntry} -> NetworkList(r)
    [] r.node \in {<<"driver">>, DriverEntry} -> DriverList(r)
    [] OTHER -> AttachedList(r.node)

(***************************************************************************)
(* Requests: krpc and the typed calls of the kernel API.  Each resolves    *)
(* its path more than once, and tasks and devices change in between.       *)
(***************************************************************************)
NoReq == [op |-> "none", path |-> <<>>, label |-> "", max |-> 0]
NoGot == [r |-> Nowhere, value |-> Err, total |-> 0, count |-> 0]
NoReply == [op |-> "none", ok |-> FALSE, shown |-> "", about |-> 0, who |-> 0,
            count |-> 0, max |-> 0, left |-> FALSE, full |-> FALSE]

KobjInit ==
  /\ tree = [n \in InnerNodes |-> <<>>]
  /\ initialized = FALSE
  /\ inits = [t \in Callers |-> 0]
  /\ initsOverlap = FALSE
  /\ ids = [s \in Slots |-> IF s = 1 THEN 1 ELSE 0]
  /\ nextId = 2
  /\ arps = 0
  /\ driversLoaded = {}
  /\ power = 0 /\ route = 0
  /\ stage = [t \in Callers |-> "idle"]
  /\ req = [t \in Callers |-> NoReq]
  /\ got = [t \in Callers |-> NoGot]
  /\ left = [t \in Callers |-> FALSE]
  /\ reply = NoReply
  /\ made = 0

\* No init call is in progress.  What changes around the requests is looked at
\* only then: init reads none of it.
Quiet == initialized /\ \A t \in Callers : stage[t] # "init"

\* The first resolution calls init; driver requests resolve no path.
Request(t, q) ==
  LET building == ~initialized /\ q.op \notin {"drvload", "drvunload"}
  IN  /\ stage[t] = "idle"
      /\ made < MaxRequests
      /\ made' = made + 1
      /\ req' = [req EXCEPT ![t] = q]
      /\ left' = [left EXCEPT ![t] = FALSE]
      /\ reply' = NoReply
      /\ stage' = [stage EXCEPT ![t] = IF building THEN "init" ELSE q.op]
      /\ initsOverlap' = (initsOverlap \/ (building /\ \E u \in Callers : stage[u] = "init"))
      /\ UNCHANGED <<tree, initialized, inits, got, world, settings>>

InitStep(t) ==
  /\ stage[t] = "init"
  /\ IF inits[t] < Len(RegisterOrder)
       THEN /\ tree' = RegisterAll(tree, RegisterOrder[inits[t] + 1])
            /\ inits' = [inits EXCEPT ![t] = @ + 1]
            /\ UNCHANGED <<initialized, stage>>
       ELSE /\ initialized' = TRUE
            /\ inits' = [inits EXCEPT ![t] = 0]
            /\ stage' = [stage EXCEPT ![t] = req[t].op]
            /\ UNCHANGED tree
  /\ UNCHANGED <<initsOverlap, world, settings, req, got, left, reply, made>>

Answer(t, ok, shown, about, count) ==
  /\ reply' = [op |-> req[t].op, ok |-> ok, shown |-> shown, about |-> about,
               who |-> got[t].r.who, count |-> count, max |-> req[t].max,
               left |-> left[t], full |-> got[t].total > Cardinality(Slots)]
  /\ stage' = [stage EXCEPT ![t] = "idle"]
  /\ req' = [req EXCEPT ![t] = NoReq]
  /\ got' = [got EXCEPT ![t] = NoGot]
  /\ left' = [left EXCEPT ![t] = FALSE]
  /\ UNCHANGED made

Refuse(t) == Answer(t, FALSE, "refused", 0, 0)

Proceed(t, to, g) ==
  /\ stage' = [stage EXCEPT ![t] = to]
  /\ got' = [got EXCEPT ![t] = g]
  /\ UNCHANGED <<req, left, reply, made>>

Resolved(t) == ResolveInternal(req[t].path)

\* kquery: the path, and with it a snapshot of the task, then the value.
Get(t) ==
  /\ stage[t] = "get"
  /\ \E r \in {Resolved(t)} :
       IF r.node = None THEN Refuse(t) ELSE Proceed(t, "value", [got[t] EXCEPT !.r = r])
  /\ UNCHANGED <<treeVars, world, settings>>

GetValue(t) ==
  /\ stage[t] = "value"
  /\ \E state \in 0..2 : Proceed(t, "render", [got[t] EXCEPT !.value = Query(got[t].r, state)])
  /\ UNCHANGED <<treeVars, world, settings>>

GetRender(t) ==
  /\ stage[t] = "render"
  /\ LET v == got[t].value
     IN  Answer(t, v.tag # "Err", Render(v, Resolved(t).node),
                IF Last(<<"">> \o got[t].r.node) = "name" THEN v.n ELSE got[t].r.who, 0)
  /\ UNCHANGED <<treeVars, world, settings>>

\* kinfo, and the label's index.  No node of another type is writable.
Set(t) ==
  /\ stage[t] = "set"
  /\ \E r \in {Resolved(t)} :
       LET names == Labels(r.node)
           i == IndexOf(names, req[t].label)
       IN  IF r.node = None \/ r.node \notin WritableNodes \/ i = 0 THEN Refuse(t)
           ELSE Proceed(t, "write", [got[t] EXCEPT !.value = Val("Enum", i - 1)])
  /\ UNCHANGED <<treeVars, world, settings>>

\* Mutant of SetFnAccepts: the last label is refused.
SetFnAcceptsLess(v) == v.tag = "Enum" /\ v.n < 2

SetFnAccepts(v) == v.tag = "Enum" /\ v.n <= 2

\* kset
SetWrite(t) ==
  /\ stage[t] = "write"
  /\ \E r \in {Resolved(t)} :
       LET v == got[t].value
           ok == /\ r.node # None /\ ~IsDynamicLeaf(r)
                 /\ r.node \in WritableNodes
                 /\ Schema[r.node].type = v.tag
                 /\ SetFnAccepts(v)
       IN  /\ power' = IF ok /\ r.node = <<"sys", "power", "state">> THEN v.n ELSE power
           /\ route' = IF ok /\ r.node = <<"sys", "log", "route">> THEN v.n ELSE route
           /\ IF ok THEN Answer(t, TRUE, "set", 0, 0) ELSE Refuse(t)
  /\ UNCHANGED <<treeVars, world>>

\* klist; the tasks are counted first and captured in a second snapshot.
List(t) ==
  /\ stage[t] \in {"ls", "list"}
  /\ \E r \in {Resolved(t)} :
       LET l == Klist(r)
       IN  Proceed(t, IF r.node = <<"proc">> THEN "capture"
                      ELSE IF req[t].op = "ls" THEN "check" ELSE "copy",
                   [got[t] EXCEPT !.total = Len(l), !.count = StoredItems(l)])
  /\ UNCHANGED <<treeVars, world, settings>>

ListCapture(t) ==
  /\ stage[t] = "capture"
  /\ Proceed(t, IF req[t].op = "ls" THEN "check" ELSE "copy",
             [got[t] EXCEPT !.count = StoredItems(ProcList(Static(<<"proc">>)))])
  /\ UNCHANGED <<treeVars, world, settings>>

\* What krpc prints: the items with a name among the first ones.
ListCheck(t) ==
  /\ stage[t] = "check"
  /\ IF got[t].total = 0 /\ Resolved(t).node = None THEN Refuse(t)
     ELSE Answer(t, TRUE, "items", 0,
                 Min({got[t].count, Min({got[t].total, MaxItems})}))
  /\ UNCHANGED <<treeVars, world, settings>>

CopyLimit(total, max) == IF total < max THEN total ELSE max

\* stub_kobj_list
ListCopy(t) ==
  /\ stage[t] = "copy"
  /\ Answer(t, TRUE, "items", 0, CopyLimit(got[t].total, req[t].max))
  /\ UNCHANGED <<treeVars, world, settings>>

\* kinfo, and again inside kdescribe.
Describe(t) ==
  /\ stage[t] = "describe"
  /\ \E r \in {Resolved(t)} :
       IF r.node = None THEN Refuse(t) ELSE Proceed(t, "text", [got[t] EXCEPT !.r = r])
  /\ UNCHANGED <<treeVars, world, settings>>

DescribeText(t) ==
  /\ stage[t] = "text"
  /\ Answer(t, TRUE, IF Resolved(t).node = None THEN "error" ELSE "text", got[t].r.who, 0)
  /\ UNCHANGED <<treeVars, world, settings>>

\* driver::load and driver::unload, which may fail.
Drive(t) ==
  /\ stage[t] \in {"drvload", "drvunload"}
  /\ \/ Refuse(t) /\ UNCHANGED driversLoaded
     \/ /\ driversLoaded' = IF stage[t] = "drvload" THEN driversLoaded \cup {req[t].label}
                     ELSE driversLoaded \ {req[t].label}
        /\ Answer(t, TRUE, "driver", 0, 0)
  /\ UNCHANGED <<treeVars, ids, nextId, arps, settings>>

(***************************************************************************)
(* What happens around the requests.                                       *)
(***************************************************************************)
TaskEnds(s) ==
  /\ Quiet
  /\ ids[s] # 0
  /\ ids' = [ids EXCEPT ![s] = 0]
  /\ left' = [t \in Callers |-> left[t] \/ (got[t].r.kind = "proc" /\ got[t].r.slot = s)]
  /\ UNCHANGED <<treeVars, nextId, arps, driversLoaded, settings,
                 stage, req, got, reply, made>>

TaskStarts(s) ==
  /\ Quiet
  /\ ids[s] = 0
  /\ nextId <= MaxId
  /\ ids' = [ids EXCEPT ![s] = nextId]
  /\ nextId' = nextId + 1
  /\ UNCHANGED <<treeVars, arps, driversLoaded, settings, callVars>>

\* The ARP cache takes a first entry.
ArpLearns ==
  /\ Quiet
  /\ arps = 0
  /\ arps' = 1
  /\ UNCHANGED <<treeVars, ids, nextId, driversLoaded, settings, callVars>>

Step(t) ==
  \/ \E q \in Requests : Request(t, q)
  \/ Get(t) \/ GetValue(t) \/ GetRender(t)
  \/ Set(t) \/ SetWrite(t)
  \/ List(t) \/ ListCapture(t) \/ ListCheck(t) \/ ListCopy(t)
  \/ Describe(t) \/ DescribeText(t) \/ Drive(t)

\* Once two init calls overlap, only they are followed to their end.
KobjNext ==
  \/ \E t \in Callers : InitStep(t)
  \/ /\ ~initsOverlap
     /\ \/ \E t \in Callers : Step(t)
        \/ \E s \in Slots : TaskEnds(s) \/ TaskStarts(s)
        \/ ArpLearns

KobjSpec == KobjInit /\ [][KobjNext]_kobjVars

(***************************************************************************)
(* Properties.                                                             *)
(***************************************************************************)
\* The type invariant.
KobjTypeOK ==
  /\ \A n \in InnerNodes : \A name \in ToSet(tree[n]) : Append(n, name) \in NodeIds
  /\ initialized \in BOOLEAN
  /\ inits \in [Callers -> 0..Len(RegisterOrder)]
  /\ ids \in [Slots -> 0..MaxId]
  /\ power \in 0..2 /\ route \in 0..2
  /\ driversLoaded \subseteq ToSet(KobjDrivers)
  /\ \A t \in Callers : got[t].r.node \in NodeIds \cup {None}

Times(n) == Len(SelectSeq(tree[Front(n)], LAMBDA c : c = Last(n)))

\* Once no init call is in progress, every node that has a parent is among its
\* children, so a later list of definitions has not wiped out an earlier one,
\* even if two tasks ran init at once; it is there once unless they did.
TreeIsWhole ==
  Quiet => \A d \in ToSet(AllNodes) :
    (d.attached /\ d.id # Root) =>
       /\ Times(d.id) >= 1
       /\ initsOverlap \/ Times(d.id) = 1

\* Between requests; every tree and every set of entries is met there.
Resting == Quiet /\ \A t \in Callers : stage[t] = "idle"

\* The paths of everything that exists now: the tree's nodes and the entries.
Entities ==
  {<<"proc", ToString(ids[s])>> : s \in Live}
  \cup {<<"dev", "block", BlockNames[i]>> : i \in DOMAIN BlockNames}
  \cup {<<"dev", "pci", ToString(i - 1)>> : i \in 1..PciCount}
  \cup {<<"dev", "net", NetNames[i]>> : i \in DOMAIN NetNames}
  \cup {<<"net", "arp", ToString(i - 1)>> : i \in 1..arps}
  \cup {<<"driver", KobjDrivers[i]>> : i \in DOMAIN KobjDrivers}
KobjPaths == {d.id : d \in {d \in ToSet(AllNodes) : d.attached}} \cup Entities

\* Every name klist returns resolves as a child of the listed path and has the
\* type the list says, and the list is as long as the count beside it says; so
\* the field tables, the resolvers and the definitions agree.
ListedResolves ==
  (Resting /\ ~initsOverlap) => \A p \in KobjPaths :
    LET l == Klist(ResolveInternal(p))
    IN  /\ \A i \in DOMAIN l :
             LET r == ResolveInternal(Append(p, l[i].name))
             IN  r.node # None /\ Schema[r.node].type = l[i].type
        /\ p \in {<<"proc">>, <<"dev", "block">>, <<"dev", "pci">>, <<"dev", "net">>,
                  <<"net", "arp">>} =>
             Len(l) = 1 + ReadNode(Append(p, "count")).n

DeviceEntries == {BlockEntry, PciEntry, NetEntry, ArpEntry, DriverEntry}

\* A value has the type that the node's information gives, an enum index has a
\* label, and a query fails only where the information says it is not readable.
\* A device's own entry is the exception: it is called readable and is not.
ValuesMatchInfo ==
  (Resting /\ ~initsOverlap) =>
    \A p \in KobjPaths :
      LET l == Klist(ResolveInternal(p))
      IN  \A q \in {p} \cup {Append(p, l[i].name) : i \in DOMAIN l} :
            LET r == ResolveInternal(q)
                info == FillNodeInfo(r)
            IN  \A state \in 0..2 :
                  LET v == Query(r, state)
                  IN  /\ v.tag = "Err" <=> (~info.readable \/ r.node \in DeviceEntries)
                      /\ v.tag # "Err" => v.tag = info.type
                      /\ v.tag = "Enum" => v.n < Len(info.labels)

\* A reply that is not refused shows a value or a text of the task it asked for,
\* and not an error or another task's name, unless the task ended during the
\* call.  stub_kobj_list copies no more than the caller has room for, and no
\* more than the array of items holds, unless every slot of the task table is
\* taken.
RepliesAreSound ==
  /\ reply.shown \in {"<invalid-enum>", "error"} => reply.left
  /\ reply.about = reply.who \/ reply.left
  /\ reply.op = "list" => /\ reply.count <= reply.max
                          /\ reply.count <= MaxItems \/ reply.full

\* A label that the node offers is accepted and is what the node then shows; a
\* refused request changes neither setting, and nothing else changes them.
SettingsHold ==
  [][/\ \A t \in Callers :
          (stage[t] \in {"set", "write"} /\ stage'[t] = "idle") =>
             \E n \in {Resolved(t).node} :
               IF n \in WritableNodes /\ req[t].label \in ToSet(Labels(n))
                 THEN reply'.ok /\ Render(ReadNode(n), n)' = req[t].label
                 ELSE ~reply'.ok /\ UNCHANGED settings
     /\ (settings' # settings) => \E t \in Callers : stage[t] = "write"
    ]_kobjVars

(* The tree is whole, resolves what it lists and answers as it describes   *)
(* itself, and a reply is about what was asked for.                        *)
TreeSound ==
  KobjTypeOK /\ TreeIsWhole /\ ListedResolves /\ ValuesMatchInfo /\ RepliesAreSound
=============================================================================
