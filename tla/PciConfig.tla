----------------------------- MODULE PciConfig -----------------------------
(***************************************************************************)
(* How get_goya_pci_info of src/src/goya/pci_config.py finds the resources *)
(* of the card: the walk over the logical configurations of the Windows    *)
(* configuration manager, with the handles it opens and frees, and then    *)
(* the parser of the resource lists in the registry.                       *)
(*                                                                         *)
(* A registry value is a sequence of cells of four bytes.  Nothing is lost *)
(* by that: every offset and every bound of the parser is a multiple of    *)
(* four.  A value may have been cut short anywhere.                        *)
(***************************************************************************)
EXTENDS Naturals, Sequences, FiniteSets, SequencesExt

CONSTANT Machines   \* what the four sources of a machine hold

\* CmResourceType* of pci_config.py.
Port == 1
Interrupt == 2
Memory == 3

\* Where resources are looked for, in this order.
Sources == << "alloc", "boot", "BootConfig", "AllocConfig" >>
InCfgMgr == 1 .. 2
InRegistry == 3 .. 4

Descriptor == [type : {Port, Interrupt, Memory},
               start : Nat \X Nat,      \* low and high half of the address
               length : Nat]

ASSUME MachinesAssumption ==
    \A x \in Machines :
        /\ x.alloc \in Seq(Descriptor) /\ x.boot \in Seq(Descriptor)
        /\ \A v \in {x.BootConfig, x.AllocConfig} :
              v.lists \in Seq(Seq(Descriptor)) /\ v.cut \in Nat

-----------------------------------------------------------------------------
(***************************************************************************)
(* CM_RESOURCE_LIST as Windows writes it, cut after the first v.cut cells. *)
(***************************************************************************)
Partial(d) == << d.type, d.start[1], d.start[2], d.length >>
Full(l) == << 5, 0, 1, Len(l) >>
           \o FlattenSeq([j \in DOMAIN l |-> Partial(l[j])])
Whole(v) == << Len(v.lists) >>
            \o FlattenSeq([j \in DOMAIN v.lists |-> Full(v.lists[j])])
Encoded(v) ==
    SubSeq(Whole(v), 1, IF v.cut < Len(Whole(v)) THEN v.cut ELSE Len(Whole(v)))

-----------------------------------------------------------------------------
VARIABLES
    pc,
    source,         \* index into Sources
    machine,        \* what the sources hold
    live,           \* open handles: 0 is the configuration, n its n-th descriptor
    current, new,   \* the handles of the walk
    offset,         \* of the parser
    lists, parts,   \* what is left of its two ranges
    bars, ints,     \* bars, interrupt_count
    result

walkVars == << live, current, new >>
parseVars == << offset, lists, parts >>
vars == << pc, source, machine, walkVars, parseVars, bars, ints, result >>

NoResult == [out |-> "none", source |-> 0, bars |-> << >>, ints |-> 0]

Init ==
    /\ pc = "idle" /\ source = 1
    /\ machine \in Machines
    /\ live = {} /\ current = 0 /\ new = 0
    /\ offset = 0 /\ lists = 0 /\ parts = 0
    /\ bars = << >> /\ ints = 0
    /\ result = NoResult

Held == machine[Sources[source]]
Data == IF source \in InRegistry THEN Encoded(Held) ELSE << >>

-----------------------------------------------------------------------------
\* get_goya_pci_info(instance_id)
Call ==
    /\ pc = "idle"
    /\ pc' = "first" /\ source' = 1
    /\ result' = NoResult
    /\ UNCHANGED << machine, walkVars, parseVars, bars, ints >>

\* The call is over, one way or the other.
Return(out, b, n) ==
    /\ pc' = "idle" /\ source' = 1
    /\ result' = [out |-> out, source |-> source, bars |-> b, ints |-> n]
    /\ bars' = << >> /\ ints' = 0
    /\ live' = live /\ current' = 0 /\ new' = 0
    /\ offset' = 0 /\ lists' = 0 /\ parts' = 0
    /\ UNCHANGED machine

\* The next source after one without a bar.  _read_resources_cfgmgr returns no
\* interrupts with no bars; the loop over the registry values keeps their count.
NextSource ==
    /\ source < Len(Sources)
    /\ source' = source + 1
    /\ pc' = IF source' \in InCfgMgr THEN "first" ELSE "value"
    /\ bars' = << >>
    /\ ints' = IF source = 2 THEN 0 ELSE ints
    /\ offset' = 0 /\ lists' = 0 /\ parts' = 0
    /\ UNCHANGED << machine, result >>

\* A memory range counts as a BAR if it has an address and a length.
IsBar(d) == d.type = Memory /\ d.start # << 0, 0 >> /\ d.length > 0

Bar(d) == << d.start, d.length >>

Count(d) ==
    /\ bars' = IF IsBar(d) THEN Append(bars, Bar(d)) ELSE bars
    /\ ints' = IF d.type = Interrupt THEN ints + 1 ELSE ints

-----------------------------------------------------------------------------
(***************************************************************************)
(* _read_logconf.  Any call of the configuration manager may fail.         *)
(***************************************************************************)
\* Mutant: the count of interrupts goes on from one configuration to the next.
FreshKept(n) == n

Fresh(n) == 0

GetFirstLogConf ==
    /\ pc = "first"
    /\ \/ /\ live' = live \cup {0}
          /\ current' = 0
          /\ pc' = "next"
          /\ bars' = << >> /\ ints' = Fresh(ints)
          /\ UNCHANGED << source, machine, new, parseVars, result >>
       \/ NextSource /\ UNCHANGED walkVars

GetNextResDes ==
    /\ pc = "next"
    /\ \/ /\ current < Len(Held)
          /\ new' = current + 1
          /\ live' = live \cup {new'}
          /\ pc' = "data"
       \/ pc' = "last" /\ UNCHANGED << new, live >>
    /\ UNCHANGED << source, machine, current, parseVars, bars, ints, result >>

\* CM_Get_Res_Des_Data_Size and CM_Get_Res_Des_Data: one of them fails, the
\* data is too short, or the descriptor is counted.
GetResDesData ==
    /\ pc = "data"
    /\ Count(Held[new]) \/ UNCHANGED << bars, ints >>
    /\ pc' = "previous"
    /\ UNCHANGED << source, machine, walkVars, parseVars, result >>

\* Mutant: the handle is freed that the next turn of the loop needs.
FreePreviousNew ==
    /\ pc = "previous"
    /\ live' = live \ {new}
    /\ current' = new
    /\ pc' = "next"
    /\ UNCHANGED << source, machine, new, parseVars, bars, ints, result >>

\* Mutant: the loop does not go on to the new handle.
FreePreviousStays ==
    /\ pc = "previous"
    /\ live' = live \ {new}
    /\ pc' = "next"
    /\ UNCHANGED << source, machine, current, new, parseVars, bars, ints, result >>

\* The end of a turn of the loop.
FreePrevious ==
    /\ pc = "previous"
    /\ live' = IF current # 0 THEN live \ {current} ELSE live
    /\ current' = new
    /\ pc' = "next"
    /\ UNCHANGED << source, machine, new, parseVars, bars, ints, result >>

\* Mutant: the last descriptor of the loop is not freed.
FreeLastForgets ==
    /\ pc = "last"
    /\ pc' = "conf"
    /\ UNCHANGED << source, machine, walkVars, parseVars, bars, ints, result >>

\* After the loop: the last descriptor, if there was one.
FreeLast ==
    /\ pc = "last"
    /\ live' = IF current # 0 THEN live \ {current} ELSE live
    /\ pc' = "conf"
    /\ UNCHANGED << source, machine, current, new, parseVars, bars, ints, result >>

\* CM_Free_Log_Conf_Handle, and what _read_resources_cfgmgr makes of the walk.
FreeLogConf ==
    /\ pc = "conf"
    /\ pc' = "walked"
    /\ live' = live \ {0}
    /\ current' = 0 /\ new' = 0
    /\ UNCHANGED << source, machine, parseVars, bars, ints, result >>

Walked ==
    /\ pc = "walked"
    /\ \/ bars # << >> /\ Return("ok", bars, ints)
       \/ bars = << >> /\ NextSource /\ UNCHANGED walkVars

-----------------------------------------------------------------------------
(***************************************************************************)
(* _read_resources_from_registry and _parse_resource_list.                 *)
(***************************************************************************)
\* A value that is not there is passed over.
NoValue == IF source < Len(Sources) THEN NextSource /\ UNCHANGED walkVars
           ELSE Return("ok", bars, ints)

\* QueryValueEx: the value, FileNotFoundError, or another OSError, which ends
\* the search.
QueryValue ==
    /\ pc = "value"
    /\ \/ /\ pc' = IF Len(Data) < 1 THEN "parsed" ELSE "full"
          /\ lists' = IF Len(Data) < 1 THEN 0 ELSE Data[1]
          /\ offset' = 1
          /\ bars' = << >> /\ ints' = 0
          /\ UNCHANGED << source, machine, walkVars, parts, result >>
       \/ NoValue
       \/ Return("ok", bars, ints)

\* A full resource descriptor is looked for while there are 12 bytes left.
Header ==
    /\ pc = "full"
    /\ lists > 0 /\ offset + 3 <= Len(Data)

\* Mutant: the header is taken for one with a flags word.
HeaderCellsLonger == 5

HeaderCells == 4

\* Its header is read, 16 bytes.
FullDescriptor ==
    /\ Header
    /\ offset + 4 <= Len(Data)
    /\ parts' = Data[offset + 4]
    /\ lists' = lists - 1
    /\ offset' = offset + HeaderCells
    /\ pc' = "partial"
    /\ UNCHANGED << source, machine, walkVars, bars, ints, result >>

\* struct.error, which nobody catches.
HeaderRaises ==
    /\ Header
    /\ offset + 4 > Len(Data)
    /\ Return("struct.error", << >>, 0)

\* Mutant: a descriptor that ends with the data is left out.
RoomShort(o) == o + 4 < Len(Data)

Room(o) == o + 4 <= Len(Data)

PartialDescriptor ==
    /\ pc = "partial"
    /\ \/ /\ parts > 0 /\ Room(offset)
          /\ LET cell(n) == Data[offset + n]
             IN  Count([type |-> cell(1), start |-> << cell(2), cell(3) >>,
                        length |-> cell(4)])
          /\ offset' = offset + 4
          /\ parts' = parts - 1
          /\ UNCHANGED << pc, lists >>
       \/ /\ parts = 0 \/ ~Room(offset)
          /\ pc' = "full" /\ parts' = 0
          /\ UNCHANGED << offset, lists, bars, ints >>
    /\ UNCHANGED << source, machine, walkVars, result >>

ListEnd ==
    /\ pc = "full"
    /\ lists = 0 \/ offset + 3 > Len(Data)
    /\ pc' = "parsed"
    /\ UNCHANGED << source, machine, walkVars, parseVars, bars, ints, result >>

Parsed ==
    /\ pc = "parsed"
    /\ IF bars # << >> THEN Return("ok", bars, ints) ELSE NoValue

-----------------------------------------------------------------------------
Progress ==
    \/ GetFirstLogConf \/ GetNextResDes \/ GetResDesData \/ FreePrevious
    \/ FreeLast \/ FreeLogConf \/ Walked
    \/ QueryValue \/ FullDescriptor \/ HeaderRaises \/ PartialDescriptor
    \/ ListEnd \/ Parsed

Next == Call \/ Progress

\* One thread of the interpreter makes the call and goes on with it.
Spec == Init /\ [][Next]_vars /\ WF_vars(Progress)

-----------------------------------------------------------------------------
(***************************************************************************)
(* Properties.                                                             *)
(***************************************************************************)
Handles == 0 .. (IF source \in InCfgMgr THEN Len(Held) ELSE 0)

\* The type invariant of the module.
TypeOK ==
    /\ pc \in {"idle", "first", "next", "data", "previous", "last", "conf",
               "walked", "value", "full", "partial", "parsed"}
    /\ source \in DOMAIN Sources
    /\ machine \in Machines
    /\ live \subseteq Handles /\ current \in Handles \cup {0} /\ new \in Nat
    /\ offset \in 0 .. Len(Data) \cup {0, 1}
    /\ lists \in Nat /\ parts \in Nat /\ ints \in Nat
    /\ bars \in Seq((Nat \X Nat) \X Nat)

\* Every handle of the configuration manager is freed by the time the walk of
\* its configuration is over, whatever fails, and at no time are more than
\* two descriptors held.
HandlesFreed ==
    /\ pc \notin {"next", "data", "previous", "last", "conf"} => live = {}
    /\ Cardinality(live \ {0}) <= 2

\* The handles the loop uses or frees have been opened and not freed.
HandlesLive ==
    /\ pc \in {"next", "data", "previous", "last"} => {0, current} \subseteq live
    /\ pc \in {"data", "previous"} => new \in live
    /\ pc = "conf" => 0 \in live

\* What a source holds, one descriptor after the other.
Descriptors(s) ==
    IF s \in InCfgMgr THEN machine[Sources[s]]
    ELSE FlattenSeq(machine[Sources[s]].lists)

\* The descriptors of ds that have their places in S have the BARs bs, in
\* their order, and n interrupts.
Counted(ds, S, bs, n) ==
    LET barPlaces == {k \in S : IsBar(ds[k])}
    IN  /\ Len(bs) = Cardinality(barPlaces)
        /\ \A k \in barPlaces :
              bs[Cardinality({j \in barPlaces : j <= k})] = Bar(ds[k])
        /\ n = Cardinality({k \in S : ds[k].type = Interrupt})

\* BARs and interrupts that are returned together were read from one source,
\* in its order: from those of its descriptors that could be read.
FromOneSource ==
    result.out = "ok" /\ result.bars # << >> =>
        LET ds == Descriptors(result.source)
        IN  \E S \in SUBSET (DOMAIN ds) :
               Counted(ds, S, result.bars, result.ints)

\* The cells a value has up to the end of the n-th descriptor of its lists.
CellsTo(v, n) ==
    LET before(j) == Len(FlattenSeq(SubSeq(v.lists, 1, j)))
        j == CHOOSE j \in DOMAIN v.lists : before(j - 1) < n /\ n <= before(j)
    IN  1 + 4 * j + 4 * n

\* From a value of the registry that was cut short the parser takes those
\* descriptors that are there as a whole, all of them and no others, across
\* its lists.
ParsesWholeDescriptors ==
    pc = "parsed" =>
        LET ds == FlattenSeq(Held.lists)
            complete == {n \in DOMAIN ds : CellsTo(Held, n) <= Len(Data)}
        IN  Counted(ds, complete, bars, ints)

\* How many steps the search makes in its source at most: three for each
\* descriptor of a walk, and fewer than two for each cell of a value.
StepsLeft ==
    LET descriptors == Len(Held) - current
        cells == Len(Data) - offset
    IN  CASE pc = "first"    -> 3 * Len(Held) + 5
          [] pc = "next"     -> 3 * descriptors + 4
          [] pc = "data"     -> 3 * descriptors + 3
          [] pc = "previous" -> 3 * descriptors + 2
          [] pc = "last"     -> 3
          [] pc = "conf"     -> 2
          [] pc = "walked"   -> 1
          [] pc = "value"    -> 2 * Len(Data) + 2
          [] pc = "full"     -> 2 * cells + 2
          [] pc = "partial"  -> 2 * cells + 3
          [] pc = "parsed"   -> 1

\* The loops go forward: whatever fails and whatever counts a value claims,
\* each step ends the search, goes on to a later source, or leaves fewer steps
\* to be made in this one.
SearchAdvances ==
    [][pc # "idle" =>
          \/ pc' = "idle"
          \/ source' > source
          \/ source' = source /\ StepsLeft' \in 0 .. StepsLeft - 1]_vars

\* The search for resources ends.
CallReturns == (pc # "idle") ~> (pc = "idle")
=============================================================================
