------------------------ MODULE GoyaBarDriverProofs ------------------------
(***************************************************************************)
(* Theorems about the KMDF driver, for resource lists of any length, any   *)
(* requests of the clients and any number of them in the queue.            *)
(***************************************************************************)
EXTENDS GoyaBarDriver, FiniteSetTheorems, TLAPS

USE NumBarsAssumption, MapLimitAssumption

\* The mapping the context stands for.
MappingOf(e) == [va |-> e.va, start |-> e.phys, len |-> e.len]

\* Only BAR0 is ever mapped, the mappings are those of the context, and a
\* card that is neither started nor starting has none.
MappedInv ==
    /\ \A b \in Bars : bar[b].mapped => b = 0 /\ bar[b].va # NULL
    /\ mappings = IF bar[0].mapped THEN {MappingOf(bar[0])} ELSE {}
    /\ pnp \in {"absent", "added"} => ~bar[0].mapped

\* While the descriptors are gone through, BAR0 is taken from the first one
\* that is memory.
WindowInv ==
    /\ pnp = "preparing" /\ barIndex = 0 =>
          /\ ~bar[0].mapped
          /\ \A j \in 1 .. i - 1 :
                j \in DOMAIN assigned => assigned[j].type # "memory"
    /\ bar[0].mapped =>
          \E j \in DOMAIN assigned :
              /\ IsWindow(j)
              /\ bar[0].phys = assigned[j].start
              /\ bar[0].len <= assigned[j].len

\* An access is made through the mapping of BAR0 and ends inside it.
AccessInv ==
    access.kind # "none" =>
        /\ bar[0].mapped
        /\ access.va = bar[0].va
        /\ access.off + Word <= bar[0].len

DriverInv == TypeOK /\ MappedInv /\ WindowInv /\ AccessInv

LEMMA ZeroBar == 0 \in Bars
BY DEF Bars

LEMMA NoAccessInv ==
    ASSUME Quiet
    PROVE  /\ AccessInv'
           /\ reply'.status = "none"
           /\ access' \in [kind : {"none", "read", "write"},
                           va : VirtualAddrs \cup {NULL}, off : Nat]
BY DEF Quiet, AccessInv, NoAccess, NoReply

LEMMA InitInv == Init => DriverInv
<1> SUFFICES ASSUME Init PROVE DriverInv
  OBVIOUS
<1>1. bar \in [Bars -> Entry] /\ \A b \in Bars : ~bar[b].mapped
  BY DEF Init, ZeroContext, NoEntry, Entry
<1>2. TypeOK
  BY <1>1 DEF Init, TypeOK, NoReply, NoAccess
<1>3. MappedInv
  BY <1>1, ZeroBar DEF Init, MappedInv
<1>4. WindowInv
  BY <1>1, ZeroBar DEF Init, WindowInv
<1>5. AccessInv
  BY DEF Init, AccessInv, NoAccess
<1> QED
  BY <1>2, <1>3, <1>4, <1>5 DEF DriverInv

\* Steps that leave the context and the mappings alone.
LEMMA ContextKept ==
    ASSUME DriverInv, UNCHANGED << pnp, bar, mappings, assigned, i, barIndex >>
    PROVE  MappedInv' /\ WindowInv'
BY DEF DriverInv, MappedInv, WindowInv, IsWindow

LEMMA AddStep == DriverInv /\ DeviceAdd => DriverInv'
<1> SUFFICES ASSUME DriverInv, DeviceAdd PROVE DriverInv'
  OBVIOUS
<1>1. bar' \in [Bars -> Entry] /\ \A b \in Bars : ~bar'[b].mapped
  BY DEF DeviceAdd, ZeroContext, NoEntry, Entry
<1>2. TypeOK'
  BY <1>1, NoAccessInv DEF DeviceAdd, DriverInv, TypeOK
<1>3. MappedInv'
  BY <1>1, ZeroBar DEF DeviceAdd, DriverInv, MappedInv
<1>4. WindowInv'
  BY <1>1, ZeroBar DEF DeviceAdd, WindowInv
<1> QED
  BY <1>2, <1>3, <1>4, NoAccessInv DEF DeviceAdd, DriverInv

LEMMA StartStep ==
    ASSUME DriverInv, NEW r \in Resources, StartDevice(r)
    PROVE  DriverInv'
<1>1. TypeOK'
  BY NoAccessInv DEF StartDevice, DriverInv, TypeOK
<1>2. ~bar[0].mapped /\ bar' = bar /\ mappings' = mappings
  BY DEF StartDevice, DriverInv, MappedInv
<1>3. MappedInv'
  BY <1>2 DEF StartDevice, DriverInv, MappedInv
<1>4. WindowInv'
  BY <1>2 DEF StartDevice, WindowInv
<1> QED
  BY <1>1, <1>3, <1>4, NoAccessInv DEF StartDevice, DriverInv

\* A descriptor of the list.
LEMMA DescriptorType ==
    ASSUME TypeOK, i <= Len(assigned)
    PROVE  /\ i \in DOMAIN assigned
           /\ assigned[i] \in [type : {"memory", "other"},
                               start : Nat, len : Nat]
           /\ i + 1 \in Nat \ {0}
<1> DEFINE D == [type : {"memory", "other"}, start : Nat, len : Nat]
<1>1. assigned \in Seq(D)
  BY ResourcesAssumption DEF TypeOK
<1> HIDE DEF D
<1>2. i \in Nat \ {0}
  BY DEF TypeOK
<1>3. i \in 1 .. Len(assigned) /\ DOMAIN assigned = 1 .. Len(assigned)
  BY <1>1, <1>2
<1>4. assigned[i] \in D
  BY <1>1, <1>3
<1> QED
  BY <1>2, <1>3, <1>4 DEF D

\* A memory descriptor for which there is an entry.
LEMMA PrepareMemoryStep ==
    ASSUME DriverInv, PrepareStep, PrepareMemory(assigned[i])
    PROVE  DriverInv'
<1> DEFINE d == assigned[i]
<1>1. /\ pnp = "preparing" /\ i <= Len(assigned) /\ i' = i + 1
      /\ UNCHANGED << pnp, assigned, queue >>
      /\ Quiet
  BY DEF PrepareStep
<1>2. /\ i \in DOMAIN assigned /\ i' \in Nat \ {0}
      /\ d.start \in Nat /\ d.len \in Nat /\ d.type = "memory"
  BY <1>1, DescriptorType DEF DriverInv, PrepareMemory
<1>3. barIndex \in Bars /\ barIndex' = barIndex + 1 /\ barIndex' \in 0 .. NumBars
  <2>1. barIndex < NumBars /\ barIndex' = barIndex + 1
    BY DEF PrepareMemory, HasRoom
  <2>2. barIndex \in 0 .. NumBars
    BY DEF DriverInv, TypeOK
  <2> QED
    BY <2>1, <2>2 DEF Bars
<1>4. bar \in [Bars -> Entry] /\ bar[barIndex] \in Entry
  BY <1>3 DEF DriverInv, TypeOK
<1> DEFINE rec == Recorded(d)
           full(v) == [rec EXCEPT !.va = v, !.mapped = TRUE, !.len = MapLength(d)]
           failed == [rec EXCEPT !.va = NULL]
<1>9. /\ rec \in Entry /\ rec.phys = d.start
      /\ rec.mapped <=> bar[barIndex].mapped
  BY <1>2, <1>4 DEF Recorded, Entry
<1>5. MapLength(d) \in Nat /\ MapLength(d) <= d.len
  BY <1>2 DEF MapLength
<1>6. barIndex' # 0
  BY <1>3 DEF Bars
<1>10. \A v \in VirtualAddrs :
          /\ full(v) \in Entry
          /\ full(v).phys = d.start /\ full(v).va = v
          /\ full(v).len = MapLength(d) /\ full(v).mapped
  <2> HIDE DEF rec
  <2> QED
    BY <1>5, <1>9 DEF Entry
<1>11. failed \in Entry /\ (failed.mapped <=> bar[barIndex].mapped)
  <2> HIDE DEF rec
  <2> QED
    BY <1>9 DEF Entry
<1>12. \/ /\ barIndex = 0
          /\ \E v \in VirtualAddrs :
                /\ mappings' = mappings \cup
                       {[va |-> v, start |-> d.start, len |-> MapLength(d)]}
                /\ bar' = [bar EXCEPT ![0] = full(v)]
       \/ barIndex = 0 /\ mappings' = mappings /\ bar' = [bar EXCEPT ![0] = failed]
       \/ barIndex # 0 /\ mappings' = mappings /\ bar' = [bar EXCEPT ![barIndex] = rec]
  BY DEF PrepareMemory
<1>13. barIndex = 0 => ~bar[0].mapped
  BY <1>1 DEF DriverInv, WindowInv
<1>14. ASSUME barIndex # 0 PROVE ~bar[barIndex].mapped
  BY <1>3, <1>14 DEF DriverInv, MappedInv
<1> HIDE DEF d, rec, full, failed
<1>7. ASSUME NEW v \in VirtualAddrs, barIndex = 0,
             mappings' = mappings \cup
                 {[va |-> v, start |-> d.start, len |-> MapLength(d)]},
             bar' = [bar EXCEPT ![0] = full(v)]
      PROVE  DriverInv'
  <2>1. bar'[0] = full(v)
    BY <1>4, <1>7, ZeroBar
  <2>2. /\ bar'[0].phys = d.start /\ bar'[0].va = v
        /\ bar'[0].len = MapLength(d) /\ bar'[0].mapped
        /\ \A b \in Bars : b # 0 => bar'[b] = bar[b]
        /\ bar' \in [Bars -> Entry]
    BY <1>4, <1>7, <1>10, <2>1, ZeroBar
  <2>3. mappings = {}
    BY <1>7, <1>13 DEF DriverInv, MappedInv
  <2>9. mappings' = {MappingOf(bar'[0])}
    <3>1. MappingOf(bar'[0]) = [va |-> v, start |-> d.start, len |-> MapLength(d)]
      BY <2>2 DEF MappingOf
    <3> QED
      BY <1>7, <2>3, <3>1
  <2>4. MappedInv'
    BY <1>1, <2>2, <2>9, NullAssumption DEF DriverInv, MappedInv
  <2>5. \A j : j = i => IsWindow(j)'
    BY <1>1, <1>2, <1>7 DEF DriverInv, WindowInv, IsWindow, TypeOK, d
  <2>6. WindowInv'
    BY <1>1, <1>2, <1>5, <1>6, <2>2, <2>5 DEF WindowInv, d
  <2>7. mappings' \subseteq [va : VirtualAddrs, start : Nat, len : Nat]
    BY <1>2, <1>5, <2>2, <2>9 DEF MappingOf
  <2>8. TypeOK'
    BY <1>1, <1>2, <1>3, <2>2, <2>7, NoAccessInv DEF DriverInv, TypeOK
  <2> QED
    BY <1>1, <2>4, <2>6, <2>8, NoAccessInv DEF DriverInv
<1>8. ASSUME NEW e \in Entry, ~e.mapped, ~bar[barIndex].mapped,
             mappings' = mappings, bar' = [bar EXCEPT ![barIndex] = e]
      PROVE  DriverInv'
  <2>1. /\ \A b \in Bars : bar'[b].mapped => bar[b].mapped
        /\ \A b \in Bars : bar[b].mapped => bar'[b] = bar[b]
        /\ bar' \in [Bars -> Entry]
    BY <1>3, <1>4, <1>8
  <2>2. bar[0].mapped => bar'[0] = bar[0]
    BY <2>1, ZeroBar
  <2>3. MappedInv'
    BY <1>1, <1>8, <2>1, <2>2, ZeroBar DEF DriverInv, MappedInv
  <2>4. WindowInv'
    BY <1>1, <1>6, <2>1, <2>2, ZeroBar DEF DriverInv, WindowInv, IsWindow
  <2>5. TypeOK'
    BY <1>1, <1>2, <1>3, <1>8, <2>1, NoAccessInv DEF DriverInv, TypeOK
  <2> QED
    BY <1>1, <2>3, <2>4, <2>5, NoAccessInv DEF DriverInv
<1> QED
  BY <1>7, <1>8, <1>9, <1>11, <1>12, <1>13, <1>14

LEMMA PrepareOtherStep ==
    ASSUME DriverInv, PrepareStep, assigned[i].type # "memory" \/ ~HasRoom,
           UNCHANGED << barIndex, bar, mappings >>
    PROVE  DriverInv'
<1>1. /\ pnp = "preparing" /\ i <= Len(assigned) /\ i' = i + 1
      /\ UNCHANGED << pnp, assigned, queue >>
      /\ Quiet
  BY DEF PrepareStep
<1>2. i \in DOMAIN assigned /\ i' \in Nat \ {0} /\ i \in Nat
  BY <1>1, DescriptorType DEF DriverInv, TypeOK
<1>3. TypeOK'
  BY <1>1, <1>2, NoAccessInv DEF DriverInv, TypeOK
<1>4. MappedInv'
  BY <1>1 DEF DriverInv, MappedInv
<1>5. barIndex = 0 => assigned[i].type # "memory"
  BY DEF HasRoom
<1>6. WindowInv'
  BY <1>1, <1>2, <1>5 DEF DriverInv, WindowInv, IsWindow
<1> QED
  BY <1>1, <1>3, <1>4, <1>6, NoAccessInv DEF DriverInv

\* Releasing the hardware leaves nothing mapped.
LEMMA ReleaseLemma ==
    ASSUME DriverInv, ReleaseHardware
    PROVE  /\ bar' \in [Bars -> Entry]
           /\ \A b \in Bars : ~bar'[b].mapped
           /\ mappings' = {}
<1>1. bar \in [Bars -> Entry]
  BY DEF DriverInv, TypeOK
<1>2. ASSUME NEW b \in Bars
      PROVE  Released(bar[b]) \in Entry /\ ~Released(bar[b]).mapped
  <2>1. bar[b] \in Entry /\ (bar[b].mapped => bar[b].va # NULL)
    BY <1>1 DEF DriverInv, MappedInv
  <2> QED
    BY <2>1 DEF Released, Entry
<1>3. mappings \subseteq UNION {Unmapped(bar[b]) : b \in Bars}
  BY ZeroBar DEF DriverInv, MappedInv, MappingOf, Unmapped
<1> QED
  BY <1>1, <1>2, <1>3 DEF ReleaseHardware

LEMMA StopStep ==
    ASSUME DriverInv, StopDevice \/ PrepareEnd
    PROVE  DriverInv'
<1>1. UNCHANGED << assigned, i, barIndex, queue >> /\ Quiet
  BY DEF StopDevice, PrepareEnd
<1>2. CASE pnp' = "added" /\ ReleaseHardware
  <2>1. TypeOK'
    BY <1>1, <1>2, ReleaseLemma, NoAccessInv DEF DriverInv, TypeOK
  <2>2. MappedInv' /\ WindowInv'
    BY <1>2, ReleaseLemma, ZeroBar DEF MappedInv, WindowInv
  <2> QED
    BY <1>1, <2>1, <2>2, NoAccessInv DEF DriverInv
<1>3. CASE pnp' = "started" /\ UNCHANGED << bar, mappings >>
  <2>1. TypeOK'
    BY <1>1, <1>3, NoAccessInv DEF DriverInv, TypeOK
  <2>2. MappedInv' /\ WindowInv'
    BY <1>1, <1>3 DEF DriverInv, MappedInv, WindowInv, IsWindow
  <2> QED
    BY <1>1, <2>1, <2>2, NoAccessInv DEF DriverInv
<1> QED
  BY <1>2, <1>3 DEF StopDevice, PrepareEnd

LEMMA RemoveStep == DriverInv /\ RemoveDevice => DriverInv'
<1> SUFFICES ASSUME DriverInv, RemoveDevice PROVE DriverInv'
  OBVIOUS
<1>1. TypeOK'
  BY NoAccessInv DEF RemoveDevice, DriverInv, TypeOK
<1>2. MappedInv' /\ WindowInv'
  BY DEF RemoveDevice, DriverInv, MappedInv, WindowInv, IsWindow
<1> QED
  BY <1>1, <1>2, NoAccessInv DEF RemoveDevice, DriverInv

LEMMA SubmitStep ==
    ASSUME DriverInv, NEW r \in Requests, Submit(r)
    PROVE  DriverInv'
<1>1. queue' \in Seq(Requests)
  BY DEF Submit, DriverInv, TypeOK
<1>2. TypeOK'
  BY <1>1, NoAccessInv DEF Submit, DriverInv, TypeOK
<1> QED
  BY <1>2, ContextKept, NoAccessInv DEF Submit, DriverInv

\* The answer to a READ32 or a WRITE32.
LEMMA AccessStep ==
    ASSUME DriverInv, NEW r \in Requests, NEW kind \in {"read", "write"},
           NEW sizesOk, Access(r, kind, sizesOk),
           UNCHANGED << pnp, assigned, i, barIndex, bar, mappings >>
    PROVE  /\ AccessInv'
           /\ access' \in [kind : {"none", "read", "write"},
                           va : VirtualAddrs \cup {NULL}, off : Nat]
           /\ reply'.status \in {"success", "invalid_parameter", "too_small"}
<1>1. CASE /\ ValidTarget(r)
           /\ access' = [kind |-> kind, va |-> bar[r.bar].va, off |-> r.off]
           /\ Complete("success", << >>)
  <2>1. r.bar \in Bars /\ r.off \in Nat
    BY <1>1, RequestsAssumption DEF ValidTarget, Bars
  <2>2. r.bar = 0 /\ bar[0].mapped /\ r.off + Word <= bar[0].len
    BY <1>1, <2>1 DEF ValidTarget, DriverInv, MappedInv
  <2>3. bar[0].va \in VirtualAddrs \cup {NULL}
    BY ZeroBar DEF DriverInv, TypeOK, Entry
  <2> QED
    BY <1>1, <2>1, <2>2, <2>3 DEF AccessInv, Complete
<1>2. CASE access' = NoAccess /\ (Complete("invalid_parameter", << >>)
                                  \/ Complete("too_small", << >>))
  BY <1>2 DEF NoAccess, AccessInv, Complete
<1> QED
  BY <1>1, <1>2 DEF Access

LEMMA IoStep == DriverInv /\ IoDeviceControl => DriverInv'
<1> SUFFICES ASSUME DriverInv, IoDeviceControl PROVE DriverInv'
  OBVIOUS
<1> DEFINE r == Head(queue)
<1>1. r \in Requests /\ queue' \in Seq(Requests)
  BY DEF IoDeviceControl, DriverInv, TypeOK
<1>2. UNCHANGED << pnp, assigned, i, barIndex, bar, mappings >>
  BY DEF IoDeviceControl
<1>3. /\ AccessInv'
      /\ access' \in [kind : {"none", "read", "write"},
                      va : VirtualAddrs \cup {NULL}, off : Nat]
      /\ reply'.status \in {"success", "invalid_parameter", "too_small",
                            "invalid_device_request"}
  <2>1. CASE Access(r, "read", r.inLen >= READ32_IN /\ r.outLen >= READ32_OUT)
    <3> HIDE DEF r
    <3> QED
      BY <1>1, <1>2, <2>1, AccessStep
  <2>2. CASE Access(r, "write", r.inLen >= WRITE32_IN)
    <3> HIDE DEF r
    <3> QED
      BY <1>1, <1>2, <2>2, AccessStep
  <2>3. CASE access' = NoAccess /\ \/ Complete("success", BarInfo)
                                   \/ Complete("too_small", << >>)
                                   \/ Complete("invalid_device_request", << >>)
    BY <2>3 DEF NoAccess, AccessInv, Complete
  <2> QED
    BY <2>1, <2>2, <2>3 DEF IoDeviceControl, GetBarInfo
<1>4. TypeOK'
  BY <1>1, <1>2, <1>3 DEF DriverInv, TypeOK
<1> QED
  BY <1>2, <1>3, <1>4, ContextKept DEF DriverInv

LEMMA Invariant == Spec => []DriverInv
<1>1. DriverInv /\ [Next]_vars => DriverInv'
  <2> SUFFICES ASSUME DriverInv, [Next]_vars PROVE DriverInv'
    OBVIOUS
  <2>1. CASE PrepareStep
    BY <2>1, PrepareMemoryStep, PrepareOtherStep DEF PrepareStep
  <2>2. CASE UNCHANGED vars
    BY <2>2 DEF vars, DriverInv, TypeOK, MappedInv, WindowInv, IsWindow, AccessInv
  <2> QED
    BY <2>1, <2>2, AddStep, StartStep, StopStep, RemoveStep, SubmitStep, IoStep
       DEF Next
<1> QED
  BY <1>1, InitInv, PTL DEF Spec

\* The types of the device context, the queue and the answers.
THEOREM TypeCorrect == Spec => []TypeOK
<1>1. DriverInv => TypeOK
  BY DEF DriverInv
<1> QED
  BY <1>1, Invariant, PTL

\* Whatever offsets the clients send and however often the card is moved, an
\* access of the handler ends inside the mapping of the BAR0 it has now.
THEOREM AccessSafe == Spec => []AccessInWindow
<1>1. ASSUME DriverInv, access.kind # "none" PROVE AccessInWindow
  <2>1. bar[0].mapped /\ access.va = bar[0].va /\ access.off + Word <= bar[0].len
    BY <1>1 DEF DriverInv, AccessInv
  <2>2. PICK j \in DOMAIN assigned :
           /\ IsWindow(j)
           /\ bar[0].phys = assigned[j].start
           /\ bar[0].len <= assigned[j].len
    BY <1>1, <2>1 DEF DriverInv, WindowInv
  <2>3. MappingOf(bar[0]) \in mappings
    BY <1>1, <2>1 DEF DriverInv, MappedInv
  <2> QED
    BY <2>1, <2>2, <2>3 DEF AccessInWindow, MappingOf
<1>2. DriverInv => AccessInWindow
  BY <1>1 DEF AccessInWindow
<1> QED
  BY <1>2, Invariant, PTL

\* Every mapping is undone with the address and the length it was made with.
THEOREM Balanced == Spec => []MappingsBalanced
<1>1. ASSUME DriverInv PROVE MappingsBalanced
  <2>1. pnp \in {"absent", "added"} => mappings = {}
    BY <1>1 DEF DriverInv, MappedInv
  <2>2. mappings = {} \/ mappings = {MappingOf(bar[0])}
    BY <1>1 DEF DriverInv, MappedInv
  <2>3. Cardinality(mappings) <= 1
    <3>1. Cardinality({}) = 0 /\ Cardinality({MappingOf(bar[0])}) = 1
      BY FS_EmptySet, FS_Singleton
    <3> QED
      BY <2>2, <3>1
  <2> QED
    BY <2>1, <2>3 DEF MappingsBalanced
<1>2. DriverInv => MappingsBalanced
  BY <1>1
<1> QED
  BY <1>2, Invariant, PTL

-----------------------------------------------------------------------------
(***************************************************************************)
(* What GET_BAR_INFO answers.                                              *)
(***************************************************************************)

\* The entries of Bar are taken in the order of the memory descriptors: as
\* many are taken as memory descriptors were passed, up to the size of Bar,
\* and each holds the address and the size of its descriptor.
RecordedInv ==
    /\ pnp \in {"preparing", "started"} =>
          /\ i <= Len(assigned) + 1
          /\ LET c == Cardinality(MemoryIn(i - 1))
             IN  barIndex = IF c <= NumBars THEN c ELSE NumBars
          /\ \A j \in MemoryIn(i - 1) :
                LET b == Cardinality(MemoryIn(j - 1))
                IN  b < NumBars => Describes(bar[b], assigned[j])
    /\ pnp = "started" => i > Len(assigned) /\ bar[0].mapped

\* An answer is about the context of the started card.
AnswerInv ==
    reply.req.code = IOCTL_GET_BAR_INFO /\ reply.status = "success" =>
        pnp = "started" /\ reply.info = BarInfo

\* Counting the memory descriptors of a longer and longer prefix.
LEMMA MemoryCount ==
    ASSUME NEW n \in Nat
    PROVE  /\ IsFiniteSet(MemoryIn(n))
           /\ Cardinality(MemoryIn(n)) \in Nat
           /\ Cardinality(MemoryIn(n + 1)) =
                 IF assigned[n + 1].type = "memory"
                 THEN Cardinality(MemoryIn(n)) + 1 ELSE Cardinality(MemoryIn(n))
           /\ MemoryIn(n + 1) =
                 IF assigned[n + 1].type = "memory"
                 THEN MemoryIn(n) \cup {n + 1} ELSE MemoryIn(n)
<1>1. IsFiniteSet(1 .. n)
  BY FS_Interval
<1>2. IsFiniteSet(MemoryIn(n)) /\ Cardinality(MemoryIn(n)) \in Nat
  BY <1>1, FS_Subset, FS_CardinalityType DEF MemoryIn
<1>3. n + 1 \notin MemoryIn(n)
  BY DEF MemoryIn
<1>4. MemoryIn(n + 1) = IF assigned[n + 1].type = "memory"
                        THEN MemoryIn(n) \cup {n + 1} ELSE MemoryIn(n)
  BY DEF MemoryIn
<1> QED
  BY <1>2, <1>3, <1>4, FS_AddElement

\* A memory descriptor has fewer memory descriptors before it than any later
\* place of the list has.
LEMMA MemoryOrder ==
    ASSUME NEW n \in Nat, NEW j \in MemoryIn(n)
    PROVE  /\ j \in Nat \ {0} /\ j <= n
           /\ Cardinality(MemoryIn(j - 1)) \in Nat
           /\ Cardinality(MemoryIn(j - 1)) < Cardinality(MemoryIn(n))
<1>1. j \in 1 .. n /\ assigned[j].type = "memory" /\ j - 1 \in Nat
  BY DEF MemoryIn
<1> DEFINE k == j - 1
<1>2. k \in Nat /\ k + 1 = j
  BY <1>1
<1>3. /\ Cardinality(MemoryIn(k)) \in Nat
      /\ Cardinality(MemoryIn(k + 1)) = Cardinality(MemoryIn(k)) + 1
  BY <1>1, <1>2, MemoryCount
<1>4. MemoryIn(j) \subseteq MemoryIn(n)
  BY <1>1 DEF MemoryIn
<1>5. Cardinality(MemoryIn(j)) <= Cardinality(MemoryIn(n))
  BY <1>4, MemoryCount, FS_Subset
<1>6. Cardinality(MemoryIn(n)) \in Nat
  BY MemoryCount
<1> QED
  BY <1>1, <1>2, <1>3, <1>5, <1>6

LEMMA RecordedInit == Init => RecordedInv /\ AnswerInv
BY DEF Init, RecordedInv, AnswerInv, NoReply

\* Steps that leave alone what the invariant speaks of.
LEMMA RecordedKept ==
    ASSUME RecordedInv, UNCHANGED << pnp, assigned, i, barIndex, bar >>
    PROVE  RecordedInv'
<1>1. \A n : MemoryIn(n)' = MemoryIn(n)
  BY DEF MemoryIn
<1> QED
  BY <1>1 DEF RecordedInv

\* The loop passes one descriptor.
LEMMA RecordedPrepare ==
    ASSUME DriverInv, RecordedInv, PrepareStep
    PROVE  RecordedInv'
<1> DEFINE n == i - 1
           c == Cardinality(MemoryIn(n))
           d == assigned[i]
<1>1. /\ pnp = "preparing" /\ i <= Len(assigned) /\ i' = i + 1
      /\ pnp' = pnp /\ assigned' = assigned
  BY DEF PrepareStep
<1>2. /\ i \in Nat \ {0} /\ n \in Nat /\ i = n + 1
      /\ Len(assigned) \in Nat /\ d.start \in Nat
  <2>1. i \in DOMAIN assigned /\ d.start \in Nat
    BY <1>1, DescriptorType DEF DriverInv
  <2>2. Len(assigned) \in Nat
    BY ResourcesAssumption DEF DriverInv, TypeOK
  <2> QED
    BY <2>1, <2>2 DEF DriverInv, TypeOK
<1>3. \A m : MemoryIn(m)' = MemoryIn(m)
  BY <1>1 DEF MemoryIn
<1>4. /\ c \in Nat
      /\ Cardinality(MemoryIn(i)) = IF d.type = "memory" THEN c + 1 ELSE c
      /\ MemoryIn(i) = IF d.type = "memory" THEN MemoryIn(n) \cup {i}
                       ELSE MemoryIn(n)
  BY <1>2, MemoryCount
<1>5. /\ barIndex = IF c <= NumBars THEN c ELSE NumBars
      /\ \A j \in MemoryIn(n) :
            Cardinality(MemoryIn(j - 1)) < NumBars =>
                Describes(bar[Cardinality(MemoryIn(j - 1))], assigned[j])
  BY <1>1 DEF RecordedInv
<1>6. bar \in [Bars -> Entry] /\ NumBars \in Nat
  BY DEF DriverInv, TypeOK
<1>7. MemoryIn(i - 1)' = MemoryIn(i) /\ i' <= Len(assigned') + 1
  <2>1. i' - 1 = i /\ i' <= Len(assigned) + 1
    BY <1>1, <1>2
  <2> QED
    BY <1>1, <2>1 DEF MemoryIn
<1> HIDE DEF n, c, d
<1>8. \A j \in MemoryIn(n) :
         /\ Cardinality(MemoryIn(j - 1)) \in Nat
         /\ Cardinality(MemoryIn(j - 1)) < c
         /\ j < i
  BY <1>2, MemoryOrder DEF c
<1>9. CASE PrepareMemory(d)
  <2>1. /\ d.type = "memory" /\ barIndex < NumBars /\ barIndex' = barIndex + 1
        /\ barIndex = c
    <3>1. d.type = "memory" /\ barIndex < NumBars /\ barIndex' = barIndex + 1
      BY <1>9 DEF PrepareMemory, HasRoom
    <3>2. barIndex = c
      BY <1>4, <1>5, <1>6, <3>1
    <3> QED
      BY <3>1, <3>2
  <2>2. /\ Describes(bar'[barIndex], d)
        /\ \A b \in Bars : b # barIndex => bar'[b] = bar[b]
    <3>1. barIndex \in Bars /\ bar[barIndex] \in Entry
      BY <1>4, <1>6, <2>1 DEF Bars
    <3>2. ~bar[barIndex].mapped
      BY <1>1, <3>1 DEF DriverInv, MappedInv, WindowInv
    <3> DEFINE rec == Recorded(d)
    <3>3. /\ rec.phys = d.start /\ rec.len = d.len /\ ~rec.mapped
          /\ DOMAIN rec = {"phys", "va", "len", "mapped"}
      BY <3>1, <3>2 DEF Recorded, Entry
    <3>4. \E e : Describes(e, d) /\ bar' = [bar EXCEPT ![barIndex] = e]
      <4>1. CASE \E v \in VirtualAddrs :
                    bar' = [bar EXCEPT ![barIndex] =
                        [rec EXCEPT !.va = v, !.mapped = TRUE, !.len = MapLength(d)]]
        <5> HIDE DEF rec
        <5>1. PICK v \in VirtualAddrs :
                    bar' = [bar EXCEPT ![barIndex] =
                        [rec EXCEPT !.va = v, !.mapped = TRUE, !.len = MapLength(d)]]
          BY <4>1
        <5> DEFINE e == [rec EXCEPT !.va = v, !.mapped = TRUE, !.len = MapLength(d)]
        <5>2. e.phys = d.start /\ e.mapped /\ e.len = MapLength(d)
          BY <3>3
        <5>3. Describes(e, d)
          BY <5>2 DEF Describes
        <5> QED
          BY <5>1, <5>3
      <4>2. CASE bar' = [bar EXCEPT ![barIndex] = [rec EXCEPT !.va = NULL]]
        <5> HIDE DEF rec
        <5> DEFINE e == [rec EXCEPT !.va = NULL]
        <5>1. e.phys = d.start /\ ~e.mapped /\ e.len = d.len
          BY <3>3
        <5>2. Describes(e, d)
          BY <5>1 DEF Describes
        <5> QED
          BY <4>2, <5>2
      <4>3. CASE bar' = [bar EXCEPT ![barIndex] = rec]
        <5>1. Describes(rec, d)
          BY <3>3 DEF Describes
        <5> QED
          BY <4>3, <5>1
      <4> QED
        BY <1>9, <4>1, <4>2, <4>3 DEF PrepareMemory
    <3> QED
      BY <1>6, <3>1, <3>4
  <2>3. barIndex' = IF c + 1 <= NumBars THEN c + 1 ELSE NumBars
    BY <1>4, <1>6, <2>1
  <2>4. \A j \in MemoryIn(i) :
           Cardinality(MemoryIn(j - 1)) < NumBars =>
               Describes(bar'[Cardinality(MemoryIn(j - 1))], assigned[j])
    <3> SUFFICES ASSUME NEW j \in MemoryIn(i)
                 PROVE  Cardinality(MemoryIn(j - 1)) < NumBars =>
                          Describes(bar'[Cardinality(MemoryIn(j - 1))], assigned[j])
      OBVIOUS
    <3>1. CASE j = i
      <4>1. Cardinality(MemoryIn(j - 1)) = c
        BY <3>1 DEF c, n
      <4> QED
        BY <2>1, <2>2, <3>1, <4>1 DEF d
    <3>2. CASE j # i
      <4>1. j \in MemoryIn(n)
        BY <1>4, <2>1, <3>2
      <4>2. Cardinality(MemoryIn(j - 1)) \in Nat /\ Cardinality(MemoryIn(j - 1)) < c
        BY <1>8, <4>1
      <4>3. CASE Cardinality(MemoryIn(j - 1)) < NumBars
        <5>1. Cardinality(MemoryIn(j - 1)) \in Bars
              /\ Cardinality(MemoryIn(j - 1)) # barIndex
          BY <1>4, <1>6, <2>1, <4>2, <4>3 DEF Bars
        <5> QED
          BY <1>5, <2>2, <4>1, <4>3, <5>1
      <4> QED
        BY <4>3
    <3> QED
      BY <3>1, <3>2
  <2> QED
    BY <1>1, <1>3, <1>4, <1>7, <2>1, <2>3, <2>4 DEF RecordedInv
<1>10. CASE /\ d.type # "memory" \/ ~HasRoom
            /\ UNCHANGED << barIndex, bar, mappings >>
  <2>1. barIndex' = IF Cardinality(MemoryIn(i)) <= NumBars
                    THEN Cardinality(MemoryIn(i)) ELSE NumBars
    BY <1>4, <1>5, <1>6, <1>10 DEF HasRoom
  <2>2. \A j \in MemoryIn(i) :
           Cardinality(MemoryIn(j - 1)) < NumBars =>
               Describes(bar'[Cardinality(MemoryIn(j - 1))], assigned[j])
    <3> SUFFICES ASSUME NEW j \in MemoryIn(i),
                        Cardinality(MemoryIn(j - 1)) < NumBars
                 PROVE  Describes(bar'[Cardinality(MemoryIn(j - 1))], assigned[j])
      OBVIOUS
    <3>1. CASE j \in MemoryIn(n)
      BY <1>5, <1>10, <3>1
    <3>2. CASE j \notin MemoryIn(n)
      <4>1. j = i /\ d.type = "memory"
        BY <1>4, <3>2
      <4>2. Cardinality(MemoryIn(j - 1)) = c
        BY <4>1 DEF c, n
      <4> QED
        BY <1>4, <1>5, <1>6, <1>10, <4>1, <4>2 DEF HasRoom
    <3> QED
      BY <3>1, <3>2
  <2> QED
    BY <1>1, <1>3, <1>7, <1>10, <2>1, <2>2 DEF RecordedInv
<1> QED
  BY <1>9, <1>10 DEF PrepareStep, d

LEMMA RecordedStep ==
    DriverInv /\ RecordedInv /\ AnswerInv /\ [Next]_vars
        => RecordedInv' /\ AnswerInv'
<1> SUFFICES ASSUME DriverInv, RecordedInv, AnswerInv, [Next]_vars
             PROVE  RecordedInv' /\ AnswerInv'
  OBVIOUS
<1>1. Quiet => AnswerInv'
  BY DEF Quiet, NoReply, AnswerInv
<1>2. CASE DeviceAdd \/ RemoveDevice
  BY <1>1, <1>2 DEF DeviceAdd, RemoveDevice, RecordedInv
<1>3. ASSUME NEW r \in Resources, StartDevice(r) PROVE RecordedInv' /\ AnswerInv'
  <2>1. pnp' = "preparing" /\ i' = 1 /\ barIndex' = 0 /\ assigned' = r /\ Quiet
    BY <1>3 DEF StartDevice
  <2>2. MemoryIn(i - 1)' = {} /\ Len(r) \in Nat
    BY <2>1, ResourcesAssumption DEF MemoryIn
  <2>3. Cardinality(MemoryIn(i - 1)') = 0 /\ i' <= Len(assigned') + 1
    BY <2>1, <2>2, FS_EmptySet
  <2> QED
    BY <1>1, <2>1, <2>2, <2>3 DEF RecordedInv
<1>4. CASE PrepareStep
  BY <1>1, <1>4, RecordedPrepare DEF PrepareStep
<1>5. CASE PrepareEnd \/ StopDevice
  <2>1. CASE pnp' = "added"
    BY <1>1, <1>5, <2>1 DEF PrepareEnd, StopDevice, RecordedInv
  <2>2. CASE /\ pnp' = "started" /\ pnp = "preparing" /\ bar[0].mapped
             /\ i > Len(assigned)
             /\ UNCHANGED << assigned, i, barIndex, bar >>
    <3>1. \A m : MemoryIn(m)' = MemoryIn(m)
      BY <2>2 DEF MemoryIn
    <3> QED
      BY <1>1, <1>5, <2>2, <3>1 DEF PrepareEnd, StopDevice, RecordedInv
  <2> QED
    BY <1>5, <2>1, <2>2 DEF PrepareEnd, StopDevice
<1>6. ASSUME NEW r \in Requests, Submit(r) PROVE RecordedInv' /\ AnswerInv'
  BY <1>1, <1>6, RecordedKept DEF Submit
<1>7. CASE IoDeviceControl
  <2>1. pnp = "started" /\ UNCHANGED << pnp, assigned, i, barIndex, bar >>
    BY <1>7 DEF IoDeviceControl
  <2>2. BarInfo' = BarInfo
    BY <2>1 DEF BarInfo
  <2>3. ASSUME reply'.req.code = IOCTL_GET_BAR_INFO, reply'.status = "success"
        PROVE  reply'.info = BarInfo
    <3>1. Head(queue).code = IOCTL_GET_BAR_INFO
      BY <1>7, <2>3 DEF IoDeviceControl, Access, GetBarInfo, Complete
    <3>2. IOCTL_GET_BAR_INFO # IOCTL_READ32 /\ IOCTL_GET_BAR_INFO # IOCTL_WRITE32
      BY DEF IOCTL_GET_BAR_INFO, IOCTL_READ32, IOCTL_WRITE32, CtlCode,
             METHOD_BUFFERED, FILE_READ_ACCESS, FILE_WRITE_ACCESS
    <3>3. GetBarInfo(Head(queue))
      BY <1>7, <3>1, <3>2 DEF IoDeviceControl
    <3> QED
      BY <2>3, <3>3 DEF GetBarInfo, Complete
  <2> QED
    BY <2>1, <2>2, <2>3, RecordedKept DEF AnswerInv
<1>8. CASE UNCHANGED vars
  <2>1. BarInfo' = BarInfo
    BY <1>8 DEF vars, BarInfo
  <2> QED
    BY <1>8, <2>1, RecordedKept DEF vars, AnswerInv
<1> QED
  BY <1>2, <1>3, <1>4, <1>5, <1>6, <1>7, <1>8 DEF Next

\* GET_BAR_INFO reports each range the card has now with its address and its
\* size, whatever list it had before and wherever MmMapIoSpace failed on the
\* way, and BAR0 as the only one mapped.
THEOREM PresentBars == Spec => []PresentBarsReported
<1>1. ASSUME DriverInv, RecordedInv, AnswerInv PROVE PresentBarsReported
  <2> SUFFICES ASSUME reply.req.code = IOCTL_GET_BAR_INFO, reply.status = "success"
               PROVE  /\ \A b \in Bars : reply.info[b].mapped <=> b = 0
                      /\ \A j \in MemoryIn(Len(assigned)) :
                            LET b == Cardinality(MemoryIn(j - 1))
                            IN  b < NumBars =>
                                    Describes(reply.info[b], assigned[j])
    BY DEF PresentBarsReported
  <2>1. pnp = "started" /\ reply.info = BarInfo
    BY <1>1 DEF AnswerInv
  <2>2. Len(assigned) \in Nat /\ i \in Nat
    BY <1>1, ResourcesAssumption DEF DriverInv, TypeOK
  <2>3. i - 1 = Len(assigned) /\ bar[0].mapped
    BY <1>1, <2>1, <2>2 DEF RecordedInv
  <2>4. \A b \in Bars : /\ reply.info[b].phys = bar[b].phys
                        /\ reply.info[b].len = bar[b].len
                        /\ reply.info[b].mapped = bar[b].mapped
    BY <2>1 DEF BarInfo
  <2>5. \A b \in Bars : bar[b].mapped \in BOOLEAN /\ (bar[b].mapped <=> b = 0)
    BY <1>1, <2>3, ZeroBar DEF DriverInv, MappedInv, TypeOK, Entry
  <2>6. \A b \in Bars : reply.info[b].mapped <=> b = 0
    BY <2>4, <2>5
  <2>7. ASSUME NEW j \in MemoryIn(Len(assigned)),
               Cardinality(MemoryIn(j - 1)) < NumBars
        PROVE  Describes(reply.info[Cardinality(MemoryIn(j - 1))], assigned[j])
    <3> DEFINE b == Cardinality(MemoryIn(j - 1))
    <3>1. Describes(bar[b], assigned[j])
      BY <1>1, <2>1, <2>3, <2>7 DEF RecordedInv
    <3>2. b \in Bars
      BY <2>2, <2>7, MemoryOrder DEF Bars
    <3> HIDE DEF b
    <3>3. Describes(reply.info[b], assigned[j])
      BY <2>4, <3>1, <3>2 DEF Describes
    <3> QED
      BY <3>3 DEF b
  <2> QED
    BY <2>6, <2>7
<1> QED
  BY <1>1, Invariant, RecordedInit, RecordedStep, PTL DEF Spec
=============================================================================
