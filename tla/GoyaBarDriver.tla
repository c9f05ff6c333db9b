--------------------------- MODULE GoyaBarDriver ---------------------------
(***************************************************************************)
(* driver/goya_bar.c: the KMDF driver that maps BAR0 of the card and gives *)
(* user mode register access by IOCTL.  The PnP callbacks (add, prepare    *)
(* hardware, release hardware) and the IOCTL handler are the driver's; the *)
(* framework that calls them is external: it assigns memory resources,     *)
(* may stop the card to move them, and dispatches queued requests one at a *)
(* time while the card is started, never during a PnP callback.            *)
(***************************************************************************)
EXTENDS Naturals, Sequences, FiniteSets

CONSTANTS
    NumBars,        \* size of the Bar array of the device context (6)
    MapLimit,       \* the most of BAR0 that is mapped (16 MB)
    Resources,      \* resource lists the PnP manager may assign: sequences
                    \* of [type, start, len]
    VirtualAddrs,   \* what MmMapIoSpace may return
    NULL,
    Requests,       \* requests of the clients: [code, inLen, outLen,
                    \* bar, off]
    MaxPending      \* bound on the requests waiting in the queue

ASSUME NumBarsAssumption == NumBars \in Nat \ {0}
ASSUME MapLimitAssumption == MapLimit \in Nat
ASSUME NullAssumption == NULL \notin VirtualAddrs
ASSUME MaxPendingAssumption == MaxPending \in Nat
ASSUME ResourcesAssumption ==
    \A r \in Resources : r \in Seq([type : {"memory", "other"}, start : Nat,
                                    len : Nat])
ASSUME RequestsAssumption ==
    Requests \subseteq [code : Nat, inLen : Nat, outLen : Nat,
                        bar : Nat, off : Nat]

Bars == 0 .. NumBars - 1
Word == 4           \* sizeof(ULONG)

\* sizeof of the IOCTL structures, packed.
READ32_IN == 2 * Word
READ32_OUT == Word
WRITE32_IN == 3 * Word
BAR_INFO == Word + 6 * (8 + 8 + 1)

(***************************************************************************)
(* The low half of the control codes (the high half is the device type,    *)
(* 0x8000, in all of them): access, function and method fields.            *)
(***************************************************************************)
CtlCode(function, method, access) == access * 16384 + function * 4 + method

METHOD_BUFFERED == 0
FILE_READ_ACCESS == 1
FILE_WRITE_ACCESS == 2

IOCTL_READ32 == CtlCode(2048, METHOD_BUFFERED, FILE_READ_ACCESS)
IOCTL_WRITE32 == CtlCode(2049, METHOD_BUFFERED, FILE_WRITE_ACCESS)
IOCTL_GET_BAR_INFO == CtlCode(2050, METHOD_BUFFERED, FILE_READ_ACCESS)

-----------------------------------------------------------------------------
VARIABLES
    pnp,            \* "absent", "added", "preparing", "started"
    assigned,       \* the resource list of the card
    i, barIndex,    \* PrepareHardware: next descriptor, next entry of Bar
    bar,            \* the device context: Bar[0 .. NumBars - 1]
    mappings,       \* external: live kernel mappings [va, start, len]
    queue,          \* external: requests not yet handed to the driver
    reply,          \* the last completion
    access          \* the register access of the last step, if it made one

vars == << pnp, assigned, i, barIndex, bar, mappings, queue, reply, access >>

NoEntry == [phys |-> 0, va |-> NULL, len |-> 0, mapped |-> FALSE]
NoRequest == [code |-> 0, inLen |-> 0, outLen |-> 0, bar |-> 0, off |-> 0]
NoReply == [req |-> NoRequest, status |-> "none", info |-> << >>]
NoAccess == [kind |-> "none", va |-> NULL, off |-> 0]
ZeroContext == [b \in Bars |-> NoEntry]

Init ==
    /\ pnp = "absent"
    /\ assigned = << >>
    /\ i = 1
    /\ barIndex = 0
    /\ bar = ZeroContext
    /\ mappings = {}
    /\ queue = << >>
    /\ reply = NoReply
    /\ access = NoAccess

Quiet == reply' = NoReply /\ access' = NoAccess

-----------------------------------------------------------------------------
(***************************************************************************)
(* PnP.                                                                    *)
(***************************************************************************)

\* GoyaEvtDeviceAdd; a failure of one of its calls leaves no device behind.
DeviceAdd ==
    /\ pnp = "absent"
    /\ pnp' = "added"
    /\ bar' = ZeroContext
    /\ Quiet
    /\ UNCHANGED << assigned, i, barIndex, mappings, queue >>

\* The PnP manager assigns resources and calls PrepareHardware.
StartDevice(r) ==
    /\ pnp = "added"
    /\ pnp' = "preparing"
    /\ assigned' = r
    /\ i' = 1
    /\ barIndex' = 0
    /\ Quiet
    /\ UNCHANGED << bar, mappings, queue >>

MapLength(d) == IF d.len > MapLimit THEN MapLimit ELSE d.len

\* Mutants: a card moved keeps its first addresses; room for one entry more.
RecordedOnce(d) ==
    IF bar[barIndex].phys = 0
    THEN [bar[barIndex] EXCEPT !.phys = d.start, !.len = d.len]
    ELSE bar[barIndex]
HasRoomOneMore == barIndex <= NumBars

HasRoom == barIndex < NumBars

\* The entry of Bar a memory descriptor is recorded in, before any mapping.
Recorded(d) == [bar[barIndex] EXCEPT !.phys = d.start, !.len = d.len]

PrepareMemory(d) ==
    /\ d.type = "memory"
    /\ HasRoom
    /\ \/ /\ barIndex = 0
          /\ \E v \in VirtualAddrs :
                /\ \A m \in mappings : m.va # v
                /\ mappings' = mappings \cup
                       {[va |-> v, start |-> d.start, len |-> MapLength(d)]}
                /\ bar' = [bar EXCEPT ![0] =
                       [Recorded(d) EXCEPT !.va = v, !.mapped = TRUE,
                                           !.len = MapLength(d)]]
       \/ /\ barIndex = 0       \* MmMapIoSpace fails
          /\ bar' = [bar EXCEPT ![0] = [Recorded(d) EXCEPT !.va = NULL]]
          /\ UNCHANGED mappings
       \/ /\ barIndex # 0
          /\ bar' = [bar EXCEPT ![barIndex] = Recorded(d)]
          /\ UNCHANGED mappings
    /\ barIndex' = barIndex + 1

\* One iteration of the loop of GoyaEvtDevicePrepareHardware.
PrepareStep ==
    /\ pnp = "preparing"
    /\ i <= Len(assigned)
    /\ LET d == assigned[i]
       IN  \/ PrepareMemory(d)
           \/ /\ d.type # "memory" \/ ~HasRoom
              /\ UNCHANGED << barIndex, bar, mappings >>
    /\ i' = i + 1
    /\ Quiet
    /\ UNCHANGED << pnp, assigned, queue >>

\* Mutant: the flag is left set.
ReleasedStillMarked(e) == IF e.mapped /\ e.va # NULL
                          THEN [e EXCEPT !.va = NULL] ELSE e

\* GoyaEvtDeviceReleaseHardware, whose loop runs over all of Bar: the entries
\* it leaves keep their physical address and length.
Released(e) == IF e.mapped /\ e.va # NULL
               THEN [e EXCEPT !.va = NULL, !.mapped = FALSE] ELSE e

Unmapped(e) == {m \in mappings : e.mapped /\ e.va = m.va /\ e.len = m.len}

\* Mutant: the mapping is dropped from the context but not undone.
ReleaseHardwareForgets ==
    /\ bar' = [b \in Bars |-> Released(bar[b])]
    /\ UNCHANGED mappings

ReleaseHardware ==
    /\ bar' = [b \in Bars |-> Released(bar[b])]
    /\ mappings' = mappings \ UNION {Unmapped(bar[b]) : b \in Bars}

\* The end of PrepareHardware: with BAR0 unmapped it fails, and the framework
\* releases what was prepared.
PrepareEnd ==
    /\ pnp = "preparing"
    /\ i > Len(assigned)
    /\ \/ /\ bar[0].mapped
          /\ pnp' = "started"
          /\ UNCHANGED << bar, mappings >>
       \/ /\ ~bar[0].mapped
          /\ pnp' = "added"
          /\ ReleaseHardware
    /\ Quiet
    /\ UNCHANGED << assigned, i, barIndex, queue >>

\* The card is stopped, to be removed or to get other resources; requests
\* wait in the queue unless the device goes.
StopDevice ==
    /\ pnp = "started"
    /\ pnp' = "added"
    /\ ReleaseHardware
    /\ Quiet
    /\ UNCHANGED << assigned, i, barIndex, queue >>

RemoveDevice ==
    /\ pnp = "added"
    /\ pnp' = "absent"
    /\ queue' = << >>
    /\ Quiet
    /\ UNCHANGED << assigned, i, barIndex, bar, mappings >>

-----------------------------------------------------------------------------
(***************************************************************************)
(* Requests.                                                               *)
(***************************************************************************)
Submit(r) ==
    /\ pnp # "absent"
    /\ Len(queue) < MaxPending
    /\ queue' = Append(queue, r)
    /\ Quiet
    /\ UNCHANGED << pnp, assigned, i, barIndex, bar, mappings >>

Complete(status, info) ==
    reply' = [req |-> Head(queue), status |-> status, info |-> info]

\* The checks READ32 and WRITE32 make of the index and the offset.
ValidTarget(r) ==
    /\ r.bar < NumBars
    /\ bar[r.bar].mapped
    /\ r.off + Word <= bar[r.bar].len

Access(r, kind, sizesOk) ==
    \/ /\ sizesOk
       /\ ValidTarget(r)
       /\ access' = [kind |-> kind, va |-> bar[r.bar].va, off |-> r.off]
       /\ Complete("success", << >>)
    \/ /\ sizesOk
       /\ ~ValidTarget(r)
       /\ access' = NoAccess
       /\ Complete("invalid_parameter", << >>)
    \/ /\ ~sizesOk
       /\ access' = NoAccess
       /\ Complete("too_small", << >>)

BarInfo == [b \in Bars |-> [phys |-> bar[b].phys, len |-> bar[b].len,
                            mapped |-> bar[b].mapped]]

GetBarInfo(r) ==
    /\ access' = NoAccess
    /\ \/ r.outLen >= BAR_INFO /\ Complete("success", BarInfo)
       \/ r.outLen < BAR_INFO /\ Complete("too_small", << >>)

\* GoyaEvtIoDeviceControl on the request at the head of the queue.
IoDeviceControl ==
    /\ pnp = "started"
    /\ queue # << >>
    /\ LET r == Head(queue)
       IN  \/ /\ r.code = IOCTL_READ32
              /\ Access(r, "read",
                        r.inLen >= READ32_IN /\ r.outLen >= READ32_OUT)
           \/ /\ r.code = IOCTL_WRITE32
              /\ Access(r, "write", r.inLen >= WRITE32_IN)
           \/ /\ r.code = IOCTL_GET_BAR_INFO
              /\ GetBarInfo(r)
           \/ /\ r.code \notin {IOCTL_READ32, IOCTL_WRITE32,
                                IOCTL_GET_BAR_INFO}
              /\ access' = NoAccess
              /\ Complete("invalid_device_request", << >>)
    /\ queue' = Tail(queue)
    /\ UNCHANGED << pnp, assigned, i, barIndex, bar, mappings >>

-----------------------------------------------------------------------------
Next ==
    \/ DeviceAdd
    \/ \E r \in Resources : StartDevice(r)
    \/ PrepareStep
    \/ PrepareEnd
    \/ StopDevice
    \/ RemoveDevice
    \/ \E r \in Requests : Submit(r)
    \/ IoDeviceControl

Spec == Init /\ [][Next]_vars

-----------------------------------------------------------------------------
(***************************************************************************)
(* Properties.                                                             *)
(***************************************************************************)
Entry == [phys : Nat, va : VirtualAddrs \cup {NULL}, len : Nat,
          mapped : BOOLEAN]

\* The type invariant of the module.
TypeOK ==
    /\ pnp \in {"absent", "added", "preparing", "started"}
    /\ assigned \in Resources \cup {<< >>}
    /\ i \in Nat \ {0}
    /\ barIndex \in 0 .. NumBars
    /\ bar \in [Bars -> Entry]
    /\ mappings \subseteq [va : VirtualAddrs, start : Nat, len : Nat]
    /\ queue \in Seq(Requests)
    /\ reply.status \in {"none", "success", "invalid_parameter", "too_small",
                         "invalid_device_request"}
    /\ access \in [kind : {"none", "read", "write"},
                   va : VirtualAddrs \cup {NULL}, off : Nat]

\* The memory descriptors among the first n of the card's list.
MemoryIn(n) == {k \in 1 .. n : assigned[k].type = "memory"}

\* The first memory descriptor of the card: its BAR0.
IsWindow(j) ==
    /\ j \in DOMAIN assigned
    /\ assigned[j].type = "memory"
    /\ \A k \in 1 .. j - 1 : assigned[k].type # "memory"

\* A register access the handler makes falls, with all its bytes, inside a
\* live mapping and inside the BAR0 window the card has now, however often the
\* card was stopped, moved and started since the offset was valid.
AccessInWindow ==
    access.kind # "none" =>
        \E m \in mappings, j \in DOMAIN assigned :
            /\ m.va = access.va
            /\ access.off + Word <= m.len
            /\ IsWindow(j)
            /\ m.start = assigned[j].start
            /\ m.len <= assigned[j].len

\* A card that is not started or starting holds no kernel mapping: every
\* MmMapIoSpace is undone with the address and length it was made with, also
\* when PrepareHardware fails, and never is a second one made on top of it.
MappingsBalanced ==
    /\ pnp \in {"absent", "added"} => mappings = {}
    /\ Cardinality(mappings) <= 1

\* Entry e of Bar holds the address and the size of descriptor d: of BAR0 the
\* size of what is mapped of it.
Describes(e, d) ==
    /\ e.phys = d.start
    /\ e.len = IF e.mapped THEN MapLength(d) ELSE d.len

\* GET_BAR_INFO reports each range the card has now at its place, with the
\* address and the size it has now, however often the card was stopped, moved
\* and started: a memory descriptor that has b memory descriptors before it is
\* entry b, and entry 0 and no other is reported as mapped.  Nothing is said
\* of the addresses and sizes of the entries past those of the card's list:
\* ReleaseHardware leaves in them what an earlier, longer list put there.
PresentBarsReported ==
    reply.req.code = IOCTL_GET_BAR_INFO /\ reply.status = "success" =>
        /\ \A b \in Bars : reply.info[b].mapped <=> b = 0
        /\ \A j \in MemoryIn(Len(assigned)) :
              LET b == Cardinality(MemoryIn(j - 1))
              IN  b < NumBars => Describes(reply.info[b], assigned[j])
=============================================================================
