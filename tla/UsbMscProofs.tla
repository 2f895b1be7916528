----------------------------- MODULE UsbMscProofs -----------------------------
(* Proofs about UsbStandard and UsbMsc: the buffers of the endpoints stay    *)
(* apart and inside the packet memory, and a configured device is in step    *)
(* with its host.                                                            *)
EXTENDS UsbMsc, TLAPS

-----------------------------------------------------------------------------
(* Sizes *)

LEMMA RealsizeNat == ASSUME NEW n \in Nat PROVE realsize(n) \in Nat
  BY DEF realsize

(* The two places that say where the buffers of endpoint 0 end agree.        *)
LEMMA RealsizeOfControl == realsize(MaxPacket0) = MaxPacket0
<1>1. MaxPacket0 \in {8, 16, 32, 64}
  BY StandardAssumption
<1> QED
  BY <1>1 DEF realsize

LEMMA RoomNat == ASSUME NEW h \in Halves PROVE Room(h) \in Nat
<1>0. Size \in [ Halves -> 1 .. 1023 ]
  BY StandardAssumption
<1>1. Size[h] \in Nat
  BY <1>0
<1> QED
  BY <1>1, RealsizeNat DEF Room

LEMMA RoomIsSome == ASSUME NEW h \in Halves PROVE Room(h) > 0
<1>0. Size \in [ Halves -> 1 .. 1023 ]
  BY StandardAssumption
<1>1. Size[h] \in 1 .. 1023
  BY <1>0
<1>2. realsize(Size[h]) > 0
  BY <1>1 DEF realsize
<1> QED
  BY <1>1, <1>2 DEF Room

LEMMA Sizes ==
    /\ MaxPacket0 \in Nat /\ PmTop \in Nat /\ PmSize \in Nat /\ Base \in Nat
    /\ Len(Calls) \in Nat
    /\ Layout \in [ 0 .. Len(Calls) -> 0 .. PmSize ] /\ Layout[0] = Base
    /\ Base <= PmSize
<1>0. /\ Calls \in Seq(Halves \union {"control"})
      /\ MaxPacket0 \in {8, 16, 32, 64} /\ PmTop \in Nat /\ PmSize \in Nat
  BY StandardAssumption
<1>1. MaxPacket0 \in Nat /\ PmTop \in Nat /\ PmSize \in Nat /\ Len(Calls) \in Nat
  BY <1>0
<1>2. Layout \in [ 0 .. Len(Calls) -> 0 .. PmSize ] /\ Layout[0] = Base
  BY LayoutAssumption
<1>3. Base <= PmSize
  BY <1>1, <1>2
<1> QED
  BY <1>1, <1>2, <1>3 DEF Base

LEMMA CallIsHalf ==
    ASSUME NEW i \in 1 .. Len(Calls), Calls[i] # "control"
    PROVE  Calls[i] \in Halves /\ Layout[i] = Layout[i - 1] + Room(Calls[i])
<1>0. Calls \in Seq(Halves \union {"control"})
  BY StandardAssumption
<1>1. Calls[i] \in Halves \union {"control"}
  BY <1>0
<1> QED
  BY <1>1, LayoutAssumption

-----------------------------------------------------------------------------
(* The packet memory.  pm_top alone does not bound the buffers: a bus reset  *)
(* in the middle of the set-config callbacks puts it back below endpoints    *)
(* that are enabled after it.  While the callbacks run it is where Layout    *)
(* says, and everything enabled is below; once they have run, each half that *)
(* was ever set up is at its last place, and may be enabled again.           *)

ControlBuffers ==
    /\ "tx0" \in enabled => pm["tx0"] = [ at |-> PmTop, len |-> MaxPacket0 ]
    /\ "rx0" \in enabled => pm["rx0"] = [ at |-> PmTop + MaxPacket0, len |-> MaxPacket0 ]

ClassBuffers ==
    /\ \A h \in enabled \cap Halves : pm[h].at >= Base /\ pm[h].at + pm[h].len <= PmSize
    /\ \A g, h \in enabled \cap Halves : g # h => Apart(pm[g], pm[h])

TopInCalls ==
    call # 0 =>
        /\ pm_top = Layout[call - 1] /\ pm_top >= Base
        /\ \A h \in enabled \cap Halves : pm[h].at + pm[h].len <= pm_top

Placed(h) ==
    \E i \in 1 .. Len(Calls) :
        /\ Calls[i] = h /\ \A j \in i + 1 .. Len(Calls) : Calls[j] # h
        /\ pm[h] = [ at |-> Layout[i - 1], len |-> Room(h) ]
ToCome(h) == call # 0 /\ \E i \in call .. Len(Calls) : Calls[i] = h

Places ==
    /\ \A h \in Halves : pm[h].len > 0 => Placed(h) \/ ToCome(h)
    /\ \A h \in enabled \cap Halves : pm[h].len > 0

MemoryInv == StdTypeOK /\ ControlBuffers /\ ClassBuffers /\ TopInCalls /\ Places

LEMMA InitMemory == StdInit => MemoryInv
  BY Sizes DEF StdInit, MemoryInv, StdTypeOK, ControlBuffers, ClassBuffers, TopInCalls,
     Buffer, Control, Places

(* Two halves at their last places, and the packet memory                    *)
LEMMA PlacesFit ==
    ASSUME NEW h \in Halves, Placed(h)
    PROVE  pm[h].at >= Base /\ pm[h].at + pm[h].len <= PmSize
<1>1. PICK i \in 1 .. Len(Calls) : Calls[i] = h /\ pm[h] = [ at |-> Layout[i - 1], len |-> Room(h) ]
  BY DEF Placed
<1>2. Calls[i] # "control"
  BY <1>1, StandardAssumption
<1>3. Layout[i] = Layout[i - 1] + Room(h)
  BY <1>1, <1>2, CallIsHalf
<1>4. i - 1 \in 0 .. Len(Calls) /\ i \in 0 .. Len(Calls) /\ 0 \in 0 .. Len(Calls)
  BY Sizes
<1>5. Layout[0] <= Layout[i - 1]
  BY <1>4, LayoutAssumption
<1> QED
  BY <1>1, <1>3, <1>4, <1>5, Sizes

LEMMA PlacesApart ==
    ASSUME NEW g \in Halves, NEW h \in Halves, g # h, Placed(g), Placed(h)
    PROVE  Apart(pm[g], pm[h])
<1>1. PICK i \in 1 .. Len(Calls) : Calls[i] = g /\ pm[g] = [ at |-> Layout[i - 1], len |-> Room(g) ]
  BY DEF Placed
<1>2. PICK j \in 1 .. Len(Calls) : Calls[j] = h /\ pm[h] = [ at |-> Layout[j - 1], len |-> Room(h) ]
  BY DEF Placed
<1>3. Calls[i] # "control" /\ Calls[j] # "control"
  BY <1>1, <1>2, StandardAssumption
<1>4. Layout[i] = Layout[i - 1] + Room(g) /\ Layout[j] = Layout[j - 1] + Room(h)
  BY <1>1, <1>2, <1>3, CallIsHalf
<1>5. /\ i < j => Layout[i] <= Layout[j - 1]
      /\ j < i => Layout[j] <= Layout[i - 1]
  BY Sizes, LayoutAssumption
<1>6. i < j \/ j < i
  BY <1>1, <1>2, Sizes
<1> QED
  BY <1>1, <1>2, <1>4, <1>5, <1>6 DEF Apart

LEMMA MemoryIsEnough == MemoryInv => PacketMemory
<1> SUFFICES ASSUME MemoryInv PROVE PacketMemory
  OBVIOUS
<1>1. enabled \subseteq Halves \union Control /\ pm \in [ Halves \union Control -> Buffer ]
  BY DEF MemoryInv, StdTypeOK
<1>2. ASSUME NEW h \in enabled \cap Control
      PROVE  pm[h].at >= PmTop /\ pm[h].at + pm[h].len <= Base
  BY <1>2, Sizes DEF MemoryInv, ControlBuffers, Control, Base
<1>3. ASSUME NEW h \in enabled \cap Halves
      PROVE  pm[h].at >= Base /\ pm[h].at + pm[h].len <= PmSize
  BY <1>3 DEF MemoryInv, ClassBuffers
<1>4. \A h \in enabled : pm[h] \in Buffer
  BY <1>1
<1>5. BuffersFit
  <2> SUFFICES ASSUME NEW h \in enabled PROVE pm[h].at + pm[h].len <= PmSize
    BY DEF BuffersFit
  <2>1. CASE h \in Control
    BY <2>1, <1>2, <1>4, Sizes DEF Buffer
  <2>2. CASE h \in Halves
    BY <2>2, <1>3
  <2> QED
    BY <2>1, <2>2, <1>1
<1>6. ASSUME NEW h \in enabled PROVE pm[h].at >= PmTop
  <2>1. CASE h \in Control
    BY <2>1, <1>2
  <2>2. CASE h \in Halves
    BY <2>2, <1>3, <1>4, Sizes DEF Base, Buffer
  <2> QED
    BY <2>1, <2>2, <1>1
<1>7. ASSUME NEW g \in enabled, NEW h \in enabled, g # h PROVE Apart(pm[g], pm[h])
  <2>1. CASE g \in Control /\ h \in Control
    BY <2>1, <1>7, Sizes DEF MemoryInv, ControlBuffers, Control, Apart
  <2>2. CASE g \in Control /\ h \in Halves
    BY <2>2, <1>2, <1>3, <1>4, Sizes DEF Apart, Buffer
  <2>3. CASE g \in Halves /\ h \in Control
    BY <2>3, <1>2, <1>3, <1>4, Sizes DEF Apart, Buffer
  <2>4. CASE g \in Halves /\ h \in Halves
    BY <2>4, <1>7 DEF MemoryInv, ClassBuffers
  <2> QED
    BY <2>1, <2>2, <2>3, <2>4, <1>1
<1> QED
  BY <1>5, <1>6, <1>7 DEF PacketMemory, BuffersApart

LEMMA NextMemory == MemoryInv /\ [StdNext]_stdvars => MemoryInv'
<1> SUFFICES ASSUME MemoryInv, [StdNext]_stdvars PROVE MemoryInv'
  OBVIOUS
<1>a. StdTypeOK /\ ControlBuffers /\ ClassBuffers /\ TopInCalls /\ Places
  BY DEF MemoryInv
<1>b. Halves \intersect Control = {}
  BY StandardAssumption
<1>1. CASE PollReset
  <2>1. /\ pm' = [ pm EXCEPT !["tx0"] = [ at |-> PmTop, len |-> MaxPacket0 ],
                            !["rx0"] = [ at |-> PmTop + MaxPacket0, len |-> MaxPacket0 ] ]
        /\ pm_top' = PmTop + MaxPacket0 + MaxPacket0
        /\ enabled' = enabled \union Control
    BY <1>1, RealsizeOfControl DEF PollReset
  <2>2. StdTypeOK'
    <3>1. pm' \in [ Halves \union Control -> Buffer ]
      BY <1>a, <2>1, Sizes DEF StdTypeOK, Buffer, Control
    <3>2. pm_top' \in Nat /\ enabled' \subseteq Halves \union Control
      BY <1>a, <2>1, Sizes DEF StdTypeOK
    <3>3. config' = 0 /\ UNCHANGED <<call, callbacks, req, wanted, believed>>
      BY <1>1 DEF PollReset
    <3>4. config' \in 0 .. 255 /\ istr_reset' \in BOOLEAN
      <4>1. istr_reset' \in BOOLEAN
        BY <1>1, Zenon DEF PollReset
      <4> QED
        BY <3>3, <4>1
    <3>5. /\ believed' \in 0 .. 255 /\ req' \in 0 .. 255 \union {None}
          /\ wanted' \in 0 .. 255 \union {None}
          /\ call' \in 0 .. Len(Calls) /\ callbacks' \in Seq({"control"})
      BY <1>a, <3>3 DEF StdTypeOK
    <3> QED
      BY <3>1, <3>2, <3>4, <3>5 DEF StdTypeOK
  <2>3. ControlBuffers'
    BY <1>a, <2>1 DEF StdTypeOK, ControlBuffers, Control
  <2>4. enabled' \cap Halves = enabled \cap Halves /\ \A h \in Halves : pm'[h] = pm[h]
    BY <1>a, <1>b, <2>1 DEF StdTypeOK, Control
  <2>5. ClassBuffers'
    BY <1>a, <2>4 DEF ClassBuffers
  <2>6. TopInCalls'
    BY <1>1 DEF PollReset, TopInCalls
  <2>7. Places'
    BY <1>1, <1>a, <2>4 DEF PollReset, Places, Placed, ToCome
  <2> QED
    BY <2>2, <2>3, <2>5, <2>6, <2>7 DEF MemoryInv
<1>2. CASE SetConfiguration
  <2>1. CASE req \in Configs \union {0}
    <3>1. /\ pm_top' = Base /\ pm' = pm /\ enabled' = enabled \cap Control
          /\ call' = IF Calls = <<>> THEN 0 ELSE 1
      BY <1>2, <2>1 DEF SetConfiguration, endpoints_reset
    <3>2. enabled' \cap Halves = {}
      BY <1>b, <3>1
    <3>3. call' \in 0 .. Len(Calls)
      <4>1. Calls \in Seq(Halves \union {"control"})
        BY StandardAssumption
      <4>2. Calls # <<>> => Len(Calls) >= 1
        BY <4>1
      <4> QED
        BY <3>1, <4>2, Sizes
    <3>4. req \in 0 .. 255
      BY <2>1, StandardAssumption
    <3>5. callbacks' \in Seq({"control"})
      <4>1. callbacks \in Seq({"control"}) /\ <<>> \in Seq({"control"})
        BY <1>a DEF StdTypeOK
      <4>2. callbacks' = callbacks \/ callbacks' = <<>>
        BY <1>2, <2>1 DEF SetConfiguration
      <4> QED
        BY <4>1, <4>2
    <3>6. StdTypeOK'
      BY <1>2, <1>a, <2>1, <3>1, <3>3, <3>4, <3>5, Sizes
      DEF SetConfiguration, StdTypeOK
    <3>7. ControlBuffers'
      BY <1>a, <3>1 DEF ControlBuffers
    <3>8. TopInCalls'
      BY <3>1, <3>2, Sizes DEF TopInCalls
    <3>9. ASSUME NEW h \in Halves, pm'[h].len > 0 PROVE (Placed(h) \/ ToCome(h))'
      <4>1. CASE Placed(h)
        BY <3>1, <4>1 DEF Placed
      <4>2. CASE ToCome(h)
        <5>1. PICK i \in call .. Len(Calls) : Calls[i] = h /\ call # 0
          BY <4>2 DEF ToCome
        <5>2. i \in 1 .. Len(Calls)
          BY <1>a, <5>1, Sizes DEF StdTypeOK
        <5>3. Calls # <<>>
          BY <5>2, Sizes
        <5> QED
          BY <3>1, <5>1, <5>2, <5>3 DEF ToCome
      <4> QED
        BY <1>a, <3>1, <3>9, <4>1, <4>2 DEF Places
    <3>10. Places'
      BY <3>2, <3>9 DEF Places
    <3> QED
      BY <3>2, <3>6, <3>7, <3>8, <3>10 DEF MemoryInv, ClassBuffers
  <2>2. CASE req \notin Configs \union {0}
    <3>1. StdTypeOK'
      BY <1>2, <1>a, <2>2 DEF SetConfiguration, StdTypeOK
    <3> QED
      BY <1>2, <1>a, <2>2, <3>1
      DEF SetConfiguration, MemoryInv, ControlBuffers, ClassBuffers, TopInCalls, Places, Placed,
          ToCome
  <2> QED
    BY <2>1, <2>2
<1>3. CASE CallSetup
  <2> DEFINE h == Calls[call]
  <2>1. call \in 1 .. Len(Calls)
    BY <1>3, <1>a, Sizes DEF CallSetup, StdTypeOK
  <2>2. h \in Halves /\ Layout[call] = Layout[call - 1] + Room(h) /\ Room(h) \in Nat
    BY <1>3, <2>1, CallIsHalf, RoomNat DEF CallSetup
  <2>3. /\ pm' = [ pm EXCEPT ![h] = [ at |-> pm_top, len |-> Room(h) ] ]
        /\ pm_top' = pm_top + Room(h) /\ enabled' = enabled \union {h}
        /\ call' = NextCall
    BY <1>3 DEF CallSetup, ep_setup_half
  <2>4. /\ pm_top = Layout[call - 1] /\ pm_top' = Layout[call] /\ pm_top \in Nat
        /\ pm_top + Room(h) <= PmSize
    BY <1>a, <2>1, <2>2, <2>3, Sizes DEF TopInCalls, StdTypeOK
  <2>5. /\ pm_top >= Base /\ pm_top' >= Base
        /\ \A g \in enabled \cap Halves : pm[g].at + pm[g].len <= pm_top
    BY <1>3, <1>a, <2>2, <2>3, <2>4, Sizes DEF CallSetup, TopInCalls
  <2>6. call' \in 0 .. Len(Calls) /\ (call' # 0 => call' - 1 = call)
    BY <2>1, <2>3, Sizes DEF NextCall
  <2>7. StdTypeOK'
    <3>1. pm' \in [ Halves \union Control -> Buffer ]
      BY <1>a, <2>2, <2>3, <2>4 DEF StdTypeOK, Buffer
    <3> QED
      BY <1>3, <1>a, <2>2, <2>3, <2>4, <2>6, <3>1 DEF CallSetup, StdTypeOK
  <2>8. ControlBuffers'
    BY <1>a, <1>b, <2>2, <2>3 DEF StdTypeOK, ControlBuffers, Control
  <2>9. pm'[h] = [ at |-> pm_top, len |-> Room(h) ]
        /\ \A g \in Halves : g # h => pm'[g] = pm[g]
    BY <1>a, <2>2, <2>3 DEF StdTypeOK
  <2>10. ASSUME NEW g \in enabled' \cap Halves, g # h
         PROVE  /\ g \in enabled \cap Halves /\ pm'[g] = pm[g] /\ pm[g] \in Buffer
                /\ pm[g].at >= Base /\ pm[g].at + pm[g].len <= pm_top
                /\ pm[g].at + pm[g].len <= PmSize
    BY <1>a, <2>3, <2>5, <2>9, <2>10 DEF StdTypeOK, ClassBuffers
  <2>11. ClassBuffers'
    <3>1. ASSUME NEW g \in enabled' \cap Halves
          PROVE  pm'[g].at >= Base /\ pm'[g].at + pm'[g].len <= PmSize
      BY <2>4, <2>5, <2>9, <2>10
    <3>2. ASSUME NEW f \in enabled' \cap Halves, NEW g \in enabled' \cap Halves, f # g
          PROVE  Apart(pm'[f], pm'[g])
      <4>1. CASE f = h
        BY <3>2, <4>1, <2>9, <2>10 DEF Apart
      <4>2. CASE g = h
        BY <3>2, <4>2, <2>9, <2>10 DEF Apart
      <4>3. CASE f # h /\ g # h
        BY <1>a, <3>2, <4>3, <2>10 DEF ClassBuffers
      <4> QED
        BY <4>1, <4>2, <4>3
    <3> QED
      BY <3>1, <3>2 DEF ClassBuffers
  <2>12. TopInCalls'
    <3>1. ASSUME NEW g \in enabled' \cap Halves PROVE pm'[g].at + pm'[g].len <= pm_top'
      <4>1. CASE g = h
        BY <4>1, <2>3, <2>9
      <4>2. CASE g # h
        BY <4>2, <2>2, <2>3, <2>4, <2>10 DEF Buffer
      <4> QED
        BY <4>1, <4>2
    <3> QED
      BY <2>4, <2>5, <2>6, <3>1 DEF TopInCalls
  <2>13. ASSUME NEW g \in Halves, g # h, Placed(g) \/ ToCome(g) PROVE (Placed(g) \/ ToCome(g))'
    <3>1. CASE Placed(g)
      <4>1. PICK i \in 1 .. Len(Calls) :
               /\ Calls[i] = g /\ \A j \in i + 1 .. Len(Calls) : Calls[j] # g
               /\ pm[g] = [ at |-> Layout[i - 1], len |-> Room(g) ]
        BY <3>1 DEF Placed
      <4>2. pm'[g] = pm[g]
        BY <2>9, <2>13
      <4>3. Placed(g)'
        BY <4>1, <4>2 DEF Placed
      <4> QED
        BY <4>3
    <3>2. CASE ToCome(g)
      <4>1. PICK i \in call .. Len(Calls) : Calls[i] = g
        BY <3>2 DEF ToCome
      <4>2. i # call
        BY <2>13, <4>1
      <4>3. call' = call + 1 /\ i \in call + 1 .. Len(Calls)
        BY <2>1, <2>3, <4>1, <4>2, Sizes DEF NextCall
      <4>4. ToCome(g)'
        BY <2>1, <4>1, <4>3 DEF ToCome
      <4> QED
        BY <4>4
    <3> QED
      BY <2>13, <3>1, <3>2
  <2>14. ASSUME NEW g \in Halves, g = h PROVE (Placed(g) \/ ToCome(g))'
    <3>1. CASE \E j \in call + 1 .. Len(Calls) : Calls[j] = g
      <4>1. call' = call + 1 /\ call' # 0
        BY <2>1, <2>3, <3>1, Sizes DEF NextCall
      <4>2. ToCome(g)'
        BY <3>1, <4>1 DEF ToCome
      <4> QED
        BY <4>2
    <3>2. CASE \A j \in call + 1 .. Len(Calls) : Calls[j] # g
      <4>1. pm'[g] = [ at |-> Layout[call - 1], len |-> Room(g) ]
        BY <2>4, <2>9, <2>14
      <4>2. Placed(g)'
        BY <2>1, <2>14, <3>2, <4>1 DEF Placed
      <4> QED
        BY <4>2
    <3> QED
      BY <3>1, <3>2
  <2>15. Places'
    <3>1. pm'[h].len > 0
      BY <2>2, <2>9, RoomIsSome
    <3>2. ASSUME NEW g \in Halves, pm'[g].len > 0 PROVE (Placed(g) \/ ToCome(g))'
      <4>1. CASE g = h
        BY <4>1, <2>14
      <4>2. CASE g # h
        <5>1. Placed(g) \/ ToCome(g)
          BY <1>a, <2>9, <3>2, <4>2 DEF Places
        <5> QED
          BY <2>13, <4>2, <5>1
      <4> QED
        BY <4>1, <4>2
    <3>3. ASSUME NEW g \in enabled' \cap Halves PROVE pm'[g].len > 0
      BY <1>a, <2>3, <2>9, <3>1, <3>3 DEF Places
    <3> HIDE DEF h
    <3> QED
      BY <3>2, <3>3 DEF Places
  <2> QED
    BY <2>7, <2>8, <2>11, <2>12, <2>15 DEF MemoryInv
<1>4. CASE CallRegister
  <2>1. call \in 1 .. Len(Calls)
    BY <1>4, <1>a, Sizes DEF CallRegister, StdTypeOK
  <2>2. Layout[call] = Layout[call - 1]
    BY <1>4, <2>1, LayoutAssumption DEF CallRegister
  <2>3. call' \in 0 .. Len(Calls) /\ (call' # 0 => call' - 1 = call)
    BY <1>4, <2>1, Sizes DEF CallRegister, NextCall
  <2>4. callbacks' \in Seq({"control"})
    <3>1. callbacks \in Seq({"control"}) /\ Append(callbacks, "control") \in Seq({"control"})
      BY <1>a DEF StdTypeOK
    <3>2. callbacks' = callbacks \/ callbacks' = Append(callbacks, "control")
      BY <1>4 DEF CallRegister, register_control_callback
    <3> QED
      BY <3>1, <3>2
  <2>5. StdTypeOK'
    BY <1>4, <1>a, <2>3, <2>4 DEF CallRegister, StdTypeOK
  <2>6. TopInCalls'
    BY <1>4, <1>a, <2>2, <2>3 DEF CallRegister, TopInCalls
  <2>7. ASSUME NEW g \in Halves, Placed(g) \/ ToCome(g) PROVE (Placed(g) \/ ToCome(g))'
    <3>1. Calls[call] # g
      BY <1>4, StandardAssumption DEF CallRegister
    <3> QED
      <4>1. CASE Placed(g)
        <5>1. Placed(g)'
          BY <1>4, <4>1 DEF CallRegister, Placed
        <5> QED
          BY <5>1
      <4>2. CASE ToCome(g)
        <5>1. PICK i \in call .. Len(Calls) : Calls[i] = g
          BY <4>2 DEF ToCome
        <5>2. i # call
          BY <3>1, <5>1
        <5>3. call' = call + 1 /\ i \in call + 1 .. Len(Calls)
          BY <1>4, <2>1, <5>1, <5>2, Sizes DEF CallRegister, NextCall
        <5>4. ToCome(g)'
          BY <2>1, <5>1, <5>3 DEF ToCome
        <5> QED
          BY <5>4
      <4> QED
        BY <2>7, <4>1, <4>2
  <2>8. Places'
    BY <1>4, <1>a, <2>7 DEF CallRegister, Places
  <2> QED
    BY <1>4, <1>a, <2>5, <2>6, <2>8 DEF CallRegister, MemoryInv, ControlBuffers, ClassBuffers
<1>5. CASE (\E v \in Values : Configure(v)) \/ Configured
  <2>1. StdTypeOK'
    <3>1. \A v \in Values : v \in 0 .. 255
      BY StandardAssumption
    <3> QED
      BY <1>5, <1>a, <3>1 DEF Configure, Configured, StdTypeOK
  <2> QED
    BY <1>5, <1>a, <2>1
    DEF Configure, Configured, MemoryInv, ControlBuffers, ClassBuffers, TopInCalls, Places,
        Placed, ToCome
<1>6. CASE BusReset
  <2>1. StdTypeOK'
    BY <1>6, <1>a DEF BusReset, StdTypeOK
  <2> QED
    BY <1>6, <1>a, <2>1
    DEF BusReset, MemoryInv, ControlBuffers, ClassBuffers, TopInCalls, Places, Placed, ToCome
<1>7. CASE UNCHANGED stdvars
  BY <1>7, <1>a
  DEF stdvars, MemoryInv, StdTypeOK, ControlBuffers, ClassBuffers, TopInCalls, Places, Placed,
      ToCome
<1>8. CASE ClassCallback
  <2>1. PICK some \in SUBSET { h \in Halves : pm[h].len > 0 } : Enables(some)
    BY <1>8 DEF ClassCallback
  <2>2. /\ enabled' = enabled \union some /\ some \subseteq Halves /\ call = 0
        /\ UNCHANGED <<config, pm_top, pm, call, callbacks, istr_reset, req, wanted, believed>>
    BY <1>8, <2>1 DEF ClassCallback, Polling, Enables
  <2>3. ASSUME NEW h \in enabled' \cap Halves PROVE pm[h].len > 0 /\ Placed(h)
    <3>1. pm[h].len > 0
      BY <1>a, <2>1, <2>2, <2>3 DEF Places
    <3> QED
      BY <1>a, <2>2, <3>1 DEF Places, ToCome
  <2>4. StdTypeOK'
    BY <1>a, <2>2 DEF StdTypeOK
  <2>5. ControlBuffers'
    BY <1>a, <1>b, <2>2 DEF ControlBuffers, Control
  <2>6. ClassBuffers'
    BY <2>2, <2>3, PlacesFit, PlacesApart DEF ClassBuffers
  <2>7. TopInCalls' /\ Places'
    BY <1>a, <2>2, <2>3 DEF TopInCalls, Places, Placed, ToCome
  <2> QED
    BY <2>4, <2>5, <2>6, <2>7 DEF MemoryInv
<1> QED
  BY <1>1, <1>2, <1>3, <1>4, <1>5, <1>6, <1>7, <1>8 DEF StdNext

LEMMA StdMemory == StdSpec => []MemoryInv
  BY InitMemory, NextMemory, PTL DEF StdSpec

-----------------------------------------------------------------------------
(* The endpoints.  Whatever the callbacks of the class do, they leave DTOG   *)
(* alone and disable nothing.                                                *)

EpFields == {"tx", "rx", "ctr_tx", "ctr_rx", "dtog"}
DevFields == {"in", "out", "t", "disk", "sense"}

Kept(e, f) ==
    /\ DOMAIN f = DOMAIN e /\ f.dtog = e.dtog
    /\ e.tx # "DISABLED" => f.tx # "DISABLED"
    /\ e.rx # "DISABLED" => f.rx # "DISABLED"

IsDev(d) ==
    /\ DevFields \subseteq DOMAIN d
    /\ EpFields \subseteq DOMAIN d.in /\ EpFields \subseteq DOMAIN d.out

Keeps(d, r) == IsDev(r) /\ Kept(d.in, r.in) /\ Kept(d.out, r.out)

LEMMA KeepsTransitive ==
    ASSUME NEW d, NEW e, NEW f, Keeps(d, e), Keeps(e, f) PROVE Keeps(d, f)
  BY DEF Keeps, Kept

LEMMA WriteKeeps ==
    ASSUME NEW e, NEW packet, EpFields \subseteq DOMAIN e
    PROVE  Kept(e, ep_write_packet(e, packet))
  BY DEF Kept, ep_write_packet, EpFields

LEMMA ReadKeeps ==
    ASSUME NEW e, EpFields \subseteq DOMAIN e PROVE Kept(e, ep_read_packet(e))
  BY DEF Kept, ep_read_packet, EpFields

(* A change of t, disk or sense alone                                        *)
LEMMA OthersKeep ==
    ASSUME NEW d, NEW r, IsDev(d), DOMAIN r = DOMAIN d, r.in = d.in, r.out = d.out
    PROVE  Keeps(d, r)
  BY DEF Keeps, Kept, IsDev

LEMMA CommandKeeps == ASSUME NEW d, IsDev(d) PROVE Keeps(d, scsi_command(d))
<1> DEFINE c == d.t.cbw[1][2]
           s == [ d EXCEPT !.t.csw_sent = 0, !.t.tag = c, !.t.status = "passed",
                           !.t.to_write = 0, !.t.to_read = 0, !.t.count = 0 ]
           Alike(r) == DOMAIN r = DOMAIN d /\ r.in = d.in /\ r.out = d.out
           format == [ s EXCEPT !.disk = [ b \in DOMAIN d.disk |->
                                  IF b < NBlocks - 1 THEN ZeroBlock ELSE d.disk[b] ],
                                !.t.buf = ZeroBlock, !.sense = "none" ]
           reply == [ s EXCEPT !.t.to_write = c.n, !.t.buf = Put(@, 0, SenseBytes(d.sense)) ]
           mode == [ s EXCEPT !.t.to_write = c.n, !.t.buf = Put(@, 0, ModeBytes(c.n - 1)) ]
           info == [ s EXCEPT !.t.to_write = c.n, !.t.buf = Put(@, 0, InfoBytes(c.n)),
                              !.sense = "none" ]
           read == [ s EXCEPT !.t.lba = c.lba, !.t.blocks = c.n, !.t.to_write = c.n * BlockLen,
                              !.sense = "none" ]
           write == [ s EXCEPT !.t.lba = c.lba, !.t.blocks = c.n, !.t.cur = 0,
                               !.t.to_read = c.n * BlockLen ]
           ready == [ s EXCEPT !.sense = "none" ]
           refused == [ s EXCEPT !.t.status = "failed", !.sense = "illegal" ]
<1>1. scsi_command(d) =
        CASE c.op = "ready" -> ready [] c.op = "format" -> format [] c.op = "sense" -> reply
          [] c.op = "mode" -> mode [] c.op = "vpd" -> s
          [] c.op = "info" -> info [] c.op = "read" -> read [] c.op = "write" -> write
          [] OTHER -> refused
  BY DEF scsi_command
<1>2. Alike(s)
  BY DEF IsDev, DevFields
<1> HIDE DEF s, c
<1>3. DevFields \subseteq DOMAIN s
  BY <1>2 DEF IsDev
<1>4. Alike(format) /\ Alike(reply) /\ Alike(mode) /\ Alike(info)
  BY <1>2, <1>3 DEF DevFields
<1>5. Alike(read) /\ Alike(write) /\ Alike(ready) /\ Alike(refused)
  BY <1>2, <1>3 DEF DevFields
<1> HIDE DEF format, reply, mode, info, read, write, ready, refused
<1>6. Alike(scsi_command(d))
  BY <1>1, <1>2, <1>4, <1>5
<1> QED
  BY <1>6, OthersKeep

LEMMA NeedStatusKeeps == ASSUME NEW d, IsDev(d) PROVE Keeps(d, need_status(d))
<1>1. /\ DOMAIN need_status(d) = DOMAIN d
      /\ need_status(d).in = d.in /\ need_status(d).out = d.out
  BY DEF need_status, IsDev, DevFields
<1> QED
  BY <1>1, OthersKeep

(* Something written to the IN endpoint and noted in t                       *)
LEMMA SendKeeps ==
    ASSUME NEW d, IsDev(d), NEW packet, NEW r, DOMAIN r = DOMAIN d,
           r.in = ep_write_packet(d.in, packet), r.out = d.out
    PROVE  Keeps(d, r)
<1>1. Kept(d.in, r.in)
  BY WriteKeeps DEF IsDev
<1> QED
  BY <1>1 DEF Keeps, Kept, IsDev

LEMMA StatusKeeps == ASSUME NEW d, IsDev(d) PROVE Keeps(d, send_status(d))
<1> DEFINE v == IF d.t.csw_valid THEN d ELSE [ need_status(d) EXCEPT !.t.csw_valid = TRUE ]
<1>1. Keeps(d, v)
  <2>1. CASE d.t.csw_valid
    BY <2>1, OthersKeep
  <2>2. CASE ~d.t.csw_valid
    <3>1. Keeps(d, need_status(d))
      BY NeedStatusKeeps
    <3>2. Keeps(need_status(d), [ need_status(d) EXCEPT !.t.csw_valid = TRUE ])
      BY <3>1, OthersKeep DEF Keeps, IsDev, DevFields
    <3> QED
      BY <2>2, <3>1, <3>2, KeepsTransitive
  <2> QED
    BY <2>1, <2>2
<1> DEFINE packet == SubSeq(CswBytes(v.t.tag, v.t.status), v.t.csw_sent + 1,
                            Least(CswLen, v.t.csw_sent + EpSize))
           w == [ v EXCEPT !.in = ep_write_packet(@, packet),
                           !.t.csw_sent = @ + written(v.in, packet) ]
<1>2. Keeps(v, w)
  <2>1. DOMAIN w = DOMAIN v /\ w.in = ep_write_packet(v.in, packet) /\ w.out = v.out
    BY <1>1 DEF Keeps, IsDev, DevFields
  <2> HIDE DEF w, v, packet
  <2> QED
    BY <1>1, <2>1, SendKeeps DEF Keeps
<1>3. send_status(d) = IF v.t.csw_sent < CswLen THEN w ELSE v
  BY DEF send_status
<1> HIDE DEF v, w
<1> QED
  BY <1>1, <1>2, <1>3, KeepsTransitive

LEMMA ReadBlockKeeps == ASSUME NEW d, IsDev(d) PROVE Keeps(d, read_block(d))
<1>1. /\ DOMAIN read_block(d) = DOMAIN d
      /\ read_block(d).in = d.in /\ read_block(d).out = d.out
  BY DEF read_block, IsDev, DevFields
<1> QED
  BY <1>1, OthersKeep

LEMMA SendDataKeeps == ASSUME NEW d, IsDev(d) PROVE Keeps(d, send_data(d))
<1> DEFINE r == read_block(d)
           at == d.t.count % BlockLen
           packet == SubSeq(r.t.buf, at + 1, at + Least(EpSize, d.t.to_write - d.t.count))
<1>1. Keeps(d, r)
  BY ReadBlockKeeps
<1>2. /\ DOMAIN send_data(d) = DOMAIN r
      /\ send_data(d).in = ep_write_packet(r.in, packet) /\ send_data(d).out = r.out
  <2>1. DevFields \subseteq DOMAIN r
    BY <1>1 DEF Keeps, IsDev
  <2>2. send_data(d) = [ r EXCEPT !.in = ep_write_packet(@, packet),
                                  !.t.count = @ + written(d.in, packet) ]
    BY DEF send_data
  <2> HIDE DEF r, at, packet
  <2> QED
    BY <2>1, <2>2 DEF DevFields
<1> HIDE DEF r, at, packet
<1>3. Keeps(r, send_data(d))
  BY <1>1, <1>2, SendKeeps DEF Keeps
<1> QED
  BY <1>1, <1>3, KeepsTransitive

LEMMA WriteBlockKeeps == ASSUME NEW d, IsDev(d) PROVE Keeps(d, write_block(d))
<1>1. /\ DOMAIN write_block(d) = DOMAIN d
      /\ write_block(d).in = d.in /\ write_block(d).out = d.out
  BY DEF write_block, IsDev, DevFields
<1> QED
  BY <1>1, OthersKeep

LEMMA CloseKeeps == ASSUME NEW d, IsDev(d) PROVE Keeps(d, close_rx(d))
<1>1. /\ DOMAIN close_rx(d) = DOMAIN d
      /\ close_rx(d).in = d.in /\ close_rx(d).out = d.out
  BY DEF close_rx, IsDev, DevFields
<1> QED
  BY <1>1, OthersKeep

(* Something read from the OUT endpoint and noted in t                       *)
LEMMA ReceiveKeeps ==
    ASSUME NEW d, IsDev(d), NEW r, DOMAIN r = DOMAIN d,
           r.in = d.in, r.out = ep_read_packet(d.out)
    PROVE  Keeps(d, r)
<1>1. Kept(d.out, r.out)
  BY ReadKeeps DEF IsDev
<1> QED
  BY <1>1 DEF Keeps, Kept, IsDev

LEMMA ReceiveDataKeeps == ASSUME NEW d, IsDev(d) PROVE Keeps(d, receive_data(d))
<1> DEFINE packet == read_packet_data(d.out, Least(EpSize, d.t.to_read - d.t.count))
           r == [ d EXCEPT !.out = ep_read_packet(@),
                           !.t.buf = Put(@, d.t.count % BlockLen, packet),
                           !.t.count = @ + Len(packet) ]
<1>1. Keeps(d, r)
  <2>1. DOMAIN r = DOMAIN d /\ r.in = d.in /\ r.out = ep_read_packet(d.out)
    BY DEF IsDev, DevFields
  <2> HIDE DEF r
  <2> QED
    BY <2>1, ReceiveKeeps
<1>2. receive_data(d) = send_status(write_block(r))
  BY DEF receive_data
<1> HIDE DEF r
<1>3. Keeps(r, write_block(r))
  BY <1>1, WriteBlockKeeps DEF Keeps
<1>4. Keeps(write_block(r), send_status(write_block(r)))
  BY <1>3, StatusKeeps DEF Keeps
<1> QED
  BY <1>1, <1>2, <1>3, <1>4, KeepsTransitive

LEMMA ContinueKeeps == ASSUME NEW d, IsDev(d) PROVE Keeps(d, continue_rx(d))
<1>1. Keeps(d, close_rx(d))
  BY CloseKeeps
<1>2. Keeps(close_rx(d), send_status(close_rx(d)))
  BY <1>1, StatusKeeps DEF Keeps
<1>3. Keeps(d, send_status(close_rx(d)))
  BY <1>1, <1>2, KeepsTransitive
<1> QED
  BY <1>3, ReceiveDataKeeps, SendDataKeeps DEF continue_rx

LEMMA RxKeeps == ASSUME NEW d, IsDev(d) PROVE Keeps(d, data_rx_cb(d))
<1> DEFINE left == CbwLen - Len(d.t.cbw)
           packet == read_packet_data(d.out, Least(EpSize, left))
           r == [ d EXCEPT !.out = ep_read_packet(@), !.t.cbw = @ \o packet ]
           c == scsi_command(r)
<1>1. Keeps(d, r)
  <2>1. DOMAIN r = DOMAIN d /\ r.in = d.in /\ r.out = ep_read_packet(d.out)
    BY DEF IsDev, DevFields
  <2> HIDE DEF r
  <2> QED
    BY <2>1, ReceiveKeeps
<1>2. data_rx_cb(d) = IF left <= 0 THEN continue_rx(d)
                      ELSE IF Len(r.t.cbw) # CbwLen THEN continue_rx(r)
                      ELSE IF c.t.count < c.t.to_read THEN c
                      ELSE continue_rx(c)
  BY DEF data_rx_cb
<1> HIDE DEF r, left
<1>3. Keeps(d, continue_rx(d))
  BY ContinueKeeps
<1>4. Keeps(r, continue_rx(r)) /\ Keeps(r, c)
  BY <1>1, ContinueKeeps, CommandKeeps DEF Keeps
<1> HIDE DEF c
<1>5. Keeps(c, continue_rx(c))
  BY <1>4, ContinueKeeps DEF Keeps
<1>6. Keeps(d, continue_rx(r)) /\ Keeps(d, c)
  BY <1>1, <1>4, KeepsTransitive
<1>7. Keeps(d, continue_rx(c))
  BY <1>5, <1>6, KeepsTransitive
<1> QED
  BY <1>2, <1>3, <1>6, <1>7

LEMMA TxKeeps == ASSUME NEW d, IsDev(d) PROVE Keeps(d, data_tx_cb(d))
<1> DEFINE closed == IF d.t.blocks > 0 /\ d.t.cur = d.t.blocks
                     THEN [ d EXCEPT !.t.cur = 0 ] ELSE d
           s == send_status(closed)
<1>1. Keeps(d, closed)
  <2>1. DOMAIN closed = DOMAIN d /\ closed.in = d.in /\ closed.out = d.out
    BY DEF IsDev, DevFields
  <2> HIDE DEF closed
  <2> QED
    BY <2>1, OthersKeep
<1>2. data_tx_cb(d) = IF d.t.count < d.t.to_write THEN send_data(d)
                      ELSE IF d.t.csw_sent = CswLen THEN end_of_transaction(s) ELSE s
  BY DEF data_tx_cb
<1> HIDE DEF closed
<1>3. Keeps(closed, s)
  BY <1>1, StatusKeeps DEF Keeps
<1> HIDE DEF s
<1>4. Keeps(d, s)
  BY <1>1, <1>3, KeepsTransitive
<1>5. Keeps(s, end_of_transaction(s))
  <2>1. /\ DOMAIN end_of_transaction(s) = DOMAIN s
        /\ end_of_transaction(s).in = s.in /\ end_of_transaction(s).out = s.out
    BY <1>4 DEF end_of_transaction, Keeps, IsDev, DevFields
  <2> QED
    BY <1>4, <2>1, OthersKeep DEF Keeps
<1>6. Keeps(d, end_of_transaction(s)) /\ Keeps(d, send_data(d))
  BY <1>4, <1>5, KeepsTransitive, SendDataKeeps
<1> QED
  BY <1>2, <1>4, <1>6

-----------------------------------------------------------------------------
(* The device and what its host believes.  Ready speaks of the time between  *)
(* two configurations; the invariant follows a SET_CONFIGURATION through its *)
(* callbacks, and the host until it has seen the status stage.               *)

Shapes ==
    /\ Halves \subseteq DOMAIN ep
    /\ EpFields \subseteq DOMAIN ep.in /\ EpFields \subseteq DOMAIN ep.out
    /\ {"stage", "tog"} \subseteq DOMAIN host /\ Halves \subseteq DOMAIN host.tog

Stands(v) ==
    v # 0 =>
        /\ config = v /\ callbacks = <<"control">>
        /\ ep.in.tx # "DISABLED" /\ ep.out.rx # "DISABLED"

InStep == ep.in.dtog = host.tog.in /\ ep.out.dtog = host.tog.out

(* What the set-config callbacks have done so far *)
Called ==
    /\ callbacks = <<>>
    /\ call > 1 => ep.in.tx # "DISABLED" /\ ep.in.dtog = 0
    /\ call > 2 => ep.out.rx # "DISABLED" /\ ep.out.dtog = 0

BeforeReset == istr_reset => believed = 0 /\ wanted = None

Received == ~istr_reset /\ req # None => wanted = req /\ call = 0

InCalls == ~istr_reset /\ call # 0 => wanted # None /\ config = wanted /\ Called

Settled ==
    ~istr_reset /\ call = 0 /\ (wanted = None \/ req # None) =>
        Stands(believed) /\ (believed # 0 => InStep)

Accepted ==
    ~istr_reset /\ call = 0 /\ req = None /\ wanted # None =>
        Stands(wanted) /\ (wanted # 0 => ep.in.dtog = 0 /\ ep.out.dtog = 0)

ReadyInv == Shapes /\ BeforeReset /\ Received /\ InCalls /\ Settled /\ Accepted

LEMMA ThreeCalls ==
    /\ Len(Calls) = 3 /\ Calls # <<>>
    /\ Calls[1] = "in" /\ Calls[2] = "out" /\ Calls[3] = "control"
    /\ MaxCallbacks >= 1 /\ MaxCallbacks \in Nat /\ Halves = {"in", "out"}
<1>1. /\ Calls = <<"in", "out", "control">> /\ MaxCallbacks >= 1
      /\ Halves = {"in", "out"}
  BY MscAssumption DEF msc_set_config
<1>2. MaxCallbacks \in Nat
  BY StandardAssumption
<1> QED
  BY <1>1, <1>2

LEMMA ReadyIsEnough == ReadyInv => Ready
<1> SUFFICES ASSUME ReadyInv, OnBus, req = None, call = 0
             PROVE  /\ config = believed /\ callbacks = <<"control">>
                    /\ ep.in.tx # "DISABLED" /\ ep.out.rx # "DISABLED"
                    /\ ep.in.dtog = host.tog.in /\ ep.out.dtog = host.tog.out
  BY DEF Ready
<1> QED
  BY DEF ReadyInv, OnBus, Settled, Stands, InStep

LEMMA InitReady == Init => ReadyInv
<1> SUFFICES ASSUME Init PROVE ReadyInv
  OBVIOUS
<1>1. Shapes
  BY ThreeCalls DEF Init, Shapes, EpFields, NoEp
<1>2. istr_reset = FALSE /\ call = 0 /\ believed = 0 /\ wanted = None /\ req = None
  BY DEF Init, StdInit
<1> QED
  BY <1>1, <1>2 DEF ReadyInv, BeforeReset, Received, InCalls, Settled, Accepted, Stands

(* A step of the class or of the bus that leaves the configuration alone and *)
(* the endpoints enabled, and in step where they were.                       *)
LEMMA KeptReady ==
    ASSUME ReadyInv, Shapes', call = 0, ~istr_reset,
           UNCHANGED <<config, call, callbacks, istr_reset, req, wanted, believed>>,
           ep.in.tx # "DISABLED" => ep'.in.tx # "DISABLED",
           ep.out.rx # "DISABLED" => ep'.out.rx # "DISABLED",
           \/ UNCHANGED <<host, ep.in.dtog, ep.out.dtog>>
           \/ believed # 0 /\ wanted = None /\ (InStep => InStep')
    PROVE  ReadyInv'
<1>1. BeforeReset' /\ Received' /\ InCalls'
  BY DEF ReadyInv, BeforeReset, Received, InCalls
<1>2. Settled'
  BY DEF ReadyInv, Settled, Stands, InStep
<1>3. Accepted'
  BY DEF ReadyInv, Accepted, Stands, Received
<1> QED
  BY <1>1, <1>2, <1>3 DEF ReadyInv

LEMMA CallbackReady ==
    ASSUME ReadyInv, Polling, NEW d, Keeps(Now, d), Becomes(d), UNCHANGED host
    PROVE  ReadyInv'
<1>1. ep' = [ in |-> d.in, out |-> d.out ]
  BY DEF Becomes
<1>2. Kept(ep.in, ep'.in) /\ Kept(ep.out, ep'.out)
  BY <1>1 DEF Keeps, Now
<1>3. Shapes'
  BY <1>1, <1>2, ThreeCalls DEF ReadyInv, Shapes, Kept
<1>4. call = 0 /\ ~istr_reset
  BY DEF Polling
<1>5. UNCHANGED <<host, ep.in.dtog, ep.out.dtog>>
  BY <1>2 DEF Kept
<1>6. UNCHANGED <<config, call, callbacks, istr_reset, req, wanted, believed>>
  BY DEF Becomes, Enables
<1> QED
  BY <1>2, <1>3, <1>4, <1>5, <1>6, KeptReady DEF Kept

LEMMA NowIsDev == ASSUME Shapes PROVE IsDev(Now)
  BY DEF Shapes, IsDev, Now, DevFields

LEMMA PollsReady == ReadyInv /\ (PollOut \/ PollIn) => ReadyInv'
<1> SUFFICES ASSUME ReadyInv, PollOut \/ PollIn PROVE ReadyInv'
  OBVIOUS
<1>1. IsDev(Now)
  BY NowIsDev DEF ReadyInv
<1>2. CASE PollOut
  BY <1>1, <1>2, RxKeeps, CallbackReady DEF PollOut
<1>3. CASE PollIn
  <2> DEFINE d == [ Now EXCEPT !.in = clear_ctr_tx(@) ]
  <2>1. DOMAIN d = DOMAIN Now /\ d.in = clear_ctr_tx(Now.in) /\ d.out = Now.out
    BY <1>1 DEF IsDev, DevFields
  <2>2. Kept(Now.in, clear_ctr_tx(Now.in))
    BY <1>1 DEF IsDev, Kept, clear_ctr_tx, EpFields
  <2> HIDE DEF d
  <2>3. Keeps(Now, d)
    BY <1>1, <2>1, <2>2 DEF Keeps, IsDev, Kept
  <2>4. Keeps(d, data_tx_cb(d))
    BY <2>3, TxKeeps DEF Keeps
  <2>5. Keeps(Now, data_tx_cb(d))
    BY <2>3, <2>4, KeepsTransitive
  <2>6. Becomes(data_tx_cb(d)) /\ Polling /\ UNCHANGED host
    BY <1>3 DEF PollIn, d
  <2> QED
    BY <2>5, <2>6, CallbackReady
<1> QED
  BY <1>2, <1>3

(* The tokens and the halts                                                  *)
LEMMA BusReady ==
    ReadyInv /\ ((\E h \in Halves : Halt(h) \/ ClearHalt(h)) \/ (\E c \in Commands : Command(c))
                 \/ HostOut \/ HostIn)
      => ReadyInv'
<1> SUFFICES ASSUME ReadyInv,
                    \/ \E h \in Halves : Halt(h) \/ ClearHalt(h)
                    \/ \E c \in Commands : Command(c)
                    \/ HostOut \/ HostIn
             PROVE  ReadyInv'
  OBVIOUS
<1>1. /\ OnBus
      /\ UNCHANGED <<config, call, callbacks, istr_reset, req, wanted, believed>>
  BY DEF Halt, ClearHalt, Command, HostOut, HostIn, stdvars
<1>2. ~istr_reset /\ believed # 0 /\ wanted = None /\ call = 0 /\ InStep
  BY <1>1 DEF OnBus, ReadyInv, InCalls, Settled
<1>3. Shapes
  BY DEF ReadyInv
<1>4. CASE \E h \in Halves : Halt(h)
  <2>1. PICK h \in Halves : Halt(h)
    BY <1>4
  <2>2. Shapes' /\ ep'.in.dtog = ep.in.dtog /\ ep'.out.dtog = ep.out.dtog /\ host' = host
        /\ (ep.in.tx # "DISABLED" => ep'.in.tx # "DISABLED")
        /\ (ep.out.rx # "DISABLED" => ep'.out.rx # "DISABLED")
    BY <1>3, <2>1, ThreeCalls DEF Halt, Shapes, EpFields
  <2> QED
    BY <1>1, <1>2, <2>2, KeptReady
<1>5. CASE \E h \in Halves : ClearHalt(h)
  <2>1. PICK h \in Halves : ClearHalt(h)
    BY <1>5
  <2>2. Shapes'
        /\ (ep.in.tx # "DISABLED" => ep'.in.tx # "DISABLED")
        /\ (ep.out.rx # "DISABLED" => ep'.out.rx # "DISABLED")
    BY <1>3, <2>1, ThreeCalls DEF ClearHalt, endpoint_unstall, Shapes, EpFields
  <2>3. InStep'
    BY <1>2, <1>3, <2>1, ThreeCalls DEF ClearHalt, endpoint_unstall, Shapes, EpFields, InStep
  <2> QED
    BY <1>1, <1>2, <2>2, <2>3, KeptReady
<1>6. CASE \E c \in Commands : Command(c)
  <2>1. Shapes' /\ InStep' /\ ep' = ep
    BY <1>2, <1>3, <1>6 DEF Command, Shapes, InStep
  <2> QED
    BY <1>1, <1>2, <2>1, KeptReady
<1>7. CASE HostOut
  <2> DEFINE bytes == BytesOf(host.stage, host.cmd)
             upto == Least(Len(bytes), host.sent + EpSize)
             packet == SubSeq(bytes, host.sent + 1, upto)
  <2>1. ep' = [ ep EXCEPT !.out = [ HwOut(ep.out, packet) EXCEPT !.dtog = 1 - @ ] ]
    BY <1>2, <1>7 DEF HostOut, InStep
  <2>2. host'.tog = [ host.tog EXCEPT !.out = 1 - @ ] /\ DOMAIN host' = DOMAIN host
    BY <1>3, <1>7 DEF HostOut, Shapes
  <2> HIDE DEF packet
  <2>3. Shapes' /\ ep'.in = ep.in /\ ep'.out.dtog = 1 - ep.out.dtog
        /\ (ep.out.rx # "DISABLED" => ep'.out.rx # "DISABLED")
    <3> DEFINE e == [ HwOut(ep.out, packet) EXCEPT !.dtog = 1 - @ ]
    <3>0. ep' = [ ep EXCEPT !.out = e ]
      BY <2>1
    <3> HIDE DEF e
    <3>1. DOMAIN ep' = DOMAIN ep /\ ep'.in = ep.in /\ ep'.out = e
      BY <1>3, <3>0, ThreeCalls DEF Shapes
    <3>2. /\ DOMAIN ep'.out = DOMAIN ep.out /\ ep'.out.dtog = 1 - ep.out.dtog
          /\ ep'.out.rx = "NAK" \/ ep'.out.rx = ep.out.rx
      BY <1>3, <3>1 DEF e, HwOut, Shapes, EpFields
    <3> QED
      BY <1>3, <2>2, <3>1, <3>2, ThreeCalls DEF Shapes
  <2>4. InStep'
    BY <1>2, <1>3, <2>2, <2>3, ThreeCalls DEF InStep, Shapes
  <2> QED
    BY <1>1, <1>2, <2>3, <2>4, KeptReady
<1>8. CASE HostIn
  <2>1. ep' = [ ep EXCEPT !.in = [ HwIn(ep.in) EXCEPT !.dtog = 1 - @ ] ]
    BY <1>8 DEF HostIn
  <2>2. host'.tog = [ host.tog EXCEPT !.in = 1 - @ ] /\ DOMAIN host' = DOMAIN host
    BY <1>2, <1>3, <1>8 DEF HostIn, Shapes, InStep
  <2>3. Shapes' /\ ep'.out = ep.out /\ ep'.in.dtog = 1 - ep.in.dtog
        /\ (ep.in.tx # "DISABLED" => ep'.in.tx # "DISABLED")
    <3> DEFINE e == [ HwIn(ep.in) EXCEPT !.dtog = 1 - @ ]
    <3>0. ep' = [ ep EXCEPT !.in = e ]
      BY <2>1
    <3> HIDE DEF e
    <3>1. DOMAIN ep' = DOMAIN ep /\ ep'.out = ep.out /\ ep'.in = e
      BY <1>3, <3>0, ThreeCalls DEF Shapes
    <3>2. /\ DOMAIN ep'.in = DOMAIN ep.in /\ ep'.in.dtog = 1 - ep.in.dtog
          /\ ep'.in.tx = "NAK" \/ ep'.in.tx = ep.in.tx
      BY <1>3, <3>1 DEF e, HwIn, Shapes, EpFields
    <3> QED
      BY <1>3, <2>2, <3>1, <3>2, ThreeCalls DEF Shapes
  <2>4. InStep'
    BY <1>2, <1>3, <2>2, <2>3, ThreeCalls DEF InStep, Shapes
  <2> QED
    BY <1>1, <1>2, <2>3, <2>4, KeptReady
<1> QED
  BY <1>4, <1>5, <1>6, <1>7, <1>8

LEMMA ConfigureReady ==
    ReadyInv /\ StdTypeOK /\ (MscSetConfiguration \/ MscCall \/ MscRegister \/ MscConfigured
                 \/ \E v \in Values : MscConfigure(v))
      => ReadyInv'
<1> SUFFICES ASSUME ReadyInv, StdTypeOK,
                    \/ MscSetConfiguration \/ MscCall \/ MscRegister \/ MscConfigured
                    \/ \E v \in Values : MscConfigure(v)
             PROVE  ReadyInv'
  OBVIOUS
<1>a. Shapes /\ BeforeReset /\ Received /\ InCalls /\ Settled /\ Accepted
  BY DEF ReadyInv
<1>b. call \in 0 .. 3
  BY ThreeCalls DEF StdTypeOK
<1>1. CASE MscSetConfiguration
  <2>1. CASE req \in Configs \union {0}
    <3>1. /\ config' = req /\ call' = 1 /\ callbacks' = <<>> /\ req' = None
          /\ UNCHANGED <<wanted, istr_reset, believed, host>> /\ req # None
      BY <1>1, <2>1, ThreeCalls DEF MscSetConfiguration, SetConfiguration
    <3>e. ep' = [ h \in Halves |-> [ ep[h] EXCEPT !.tx = "DISABLED", !.rx = "DISABLED" ] ]
      BY <1>1, <2>1 DEF MscSetConfiguration
    <3>2. Shapes'
      BY <1>a, <3>1, <3>e, ThreeCalls DEF Shapes, EpFields
    <3>3. BeforeReset' /\ Received'
      BY <1>a, <3>1 DEF BeforeReset, Received
    <3>4. InCalls'
      BY <1>a, <3>1 DEF Received, InCalls, Called
    <3>5. Settled' /\ Accepted'
      BY <3>1 DEF Settled, Accepted
    <3> QED
      BY <3>2, <3>3, <3>4, <3>5 DEF ReadyInv
  <2>2. CASE req \notin Configs \union {0}
    <3>1. /\ wanted' = None /\ req' = None /\ req # None
          /\ UNCHANGED <<config, call, callbacks, istr_reset, believed, ep, host>>
      BY <1>1, <2>2 DEF MscSetConfiguration, SetConfiguration
    <3>2. Shapes' /\ BeforeReset' /\ Received'
      BY <1>a, <3>1 DEF Shapes, BeforeReset, Received
    <3>3. InCalls'
      BY <1>a, <3>1 DEF Received, InCalls
    <3>4. Settled' /\ Accepted'
      BY <1>a, <3>1 DEF Settled, Accepted, Stands, InStep
    <3> QED
      BY <3>2, <3>3, <3>4 DEF ReadyInv
  <2> QED
    BY <2>1, <2>2
<1>2. CASE MscCall
  <2>1. /\ call # 0 /\ Calls[call] # "control" /\ call' = NextCall
        /\ UNCHANGED <<config, callbacks, istr_reset, req, wanted, believed, host>>
        /\ ep' = IF Calls[call] = "in"
                 THEN [ ep EXCEPT !.in.tx = "NAK", !.in.dtog = 0 ]
                 ELSE [ ep EXCEPT !.out.rx = "VALID", !.out.dtog = 0 ]
    BY <1>2 DEF MscCall, CallSetup
  <2>2. call \in {1, 2} /\ call' = call + 1
    BY <1>b, <2>1, ThreeCalls DEF NextCall
  <2>3. /\ Shapes'
        /\ call = 1 => ep'.in.tx = "NAK" /\ ep'.in.dtog = 0
        /\ call = 2 => ep'.out.rx = "VALID" /\ ep'.out.dtog = 0 /\ ep'.in = ep.in
    BY <1>a, <2>1, <2>2, ThreeCalls DEF Shapes, EpFields
  <2>4. InCalls'
    BY <1>a, <2>1, <2>2, <2>3 DEF InCalls, Called
  <2>5. BeforeReset' /\ Received' /\ Settled' /\ Accepted'
    BY <1>a, <2>1, <2>2 DEF BeforeReset, Received, Settled, Accepted
  <2> QED
    BY <2>3, <2>4, <2>5 DEF ReadyInv
<1>3. CASE MscRegister
  <2>1. /\ call # 0 /\ Calls[call] = "control" /\ call' = NextCall
        /\ callbacks' = register_control_callback(callbacks)
        /\ UNCHANGED <<config, istr_reset, req, wanted, believed, ep, host>>
    BY <1>3 DEF MscRegister, CallRegister, mscvars
  <2>2. call = 3 /\ call' = 0
    BY <1>b, <2>1, ThreeCalls DEF NextCall
  <2>3. callbacks = <<>> => callbacks' = <<"control">>
    BY <2>1, ThreeCalls DEF register_control_callback
  <2>4. Shapes' /\ BeforeReset' /\ Received' /\ InCalls'
    BY <1>a, <2>1, <2>2 DEF Shapes, BeforeReset, Received, InCalls
  <2>5. Settled' /\ Accepted'
    BY <1>a, <2>1, <2>2, <2>3 DEF Received, InCalls, Called, Settled, Accepted, Stands
  <2> QED
    BY <2>4, <2>5 DEF ReadyInv
<1>4. CASE MscConfigured
  <2>1. /\ Polling /\ wanted # None /\ believed' = wanted /\ wanted' = None
        /\ UNCHANGED <<config, call, callbacks, istr_reset, req, ep>>
        /\ host' = [ host EXCEPT !.tog = [ in |-> 0, out |-> 0 ] ]
    BY <1>4 DEF MscConfigured, Configured
  <2>2. Shapes' /\ host'.tog.in = 0 /\ host'.tog.out = 0
    BY <1>a, <2>1, ThreeCalls DEF Shapes
  <2>3. BeforeReset' /\ Received' /\ InCalls' /\ Accepted'
    BY <2>1 DEF Polling, BeforeReset, Received, InCalls, Accepted
  <2>4. Settled'
    BY <1>a, <2>1, <2>2 DEF Polling, Settled, Accepted, Stands, InStep
  <2> QED
    BY <2>2, <2>3, <2>4 DEF ReadyInv
<1>5. CASE \E v \in Values : MscConfigure(v)
  <2>1. PICK v \in Values : MscConfigure(v)
    BY <1>5
  <2>2. v # None
    <3>1. Values \subseteq 0 .. 255 /\ None \notin 0 .. 255
      BY StandardAssumption
    <3> QED
      BY <3>1
  <2>3. /\ Polling /\ wanted = None /\ req' = v /\ wanted' = v
        /\ UNCHANGED <<config, call, callbacks, istr_reset, believed, ep, host>>
    BY <2>1 DEF MscConfigure, Configure, mscvars
  <2>4. Shapes' /\ BeforeReset' /\ Received' /\ InCalls' /\ Accepted'
    BY <1>a, <2>2, <2>3 DEF Polling, Shapes, BeforeReset, Received, InCalls, Accepted
  <2>5. Settled'
    BY <1>a, <2>3 DEF Polling, Settled, Stands, InStep
  <2> QED
    BY <2>4, <2>5 DEF ReadyInv
<1> QED
  BY <1>1, <1>2, <1>3, <1>4, <1>5

LEMMA NextReady == ReadyInv /\ StdTypeOK /\ [Next]_vars => ReadyInv'
<1> SUFFICES ASSUME ReadyInv, StdTypeOK, [Next]_vars PROVE ReadyInv'
  OBVIOUS
<1>a. Shapes /\ BeforeReset /\ Received /\ InCalls /\ Settled /\ Accepted
  BY DEF ReadyInv
<1>1. CASE MscPollReset
  <2>1. /\ istr_reset /\ req = None /\ call = 0
        /\ UNCHANGED <<call, req, wanted, believed, ep, host>>
    BY <1>1 DEF MscPollReset, PollReset, mscvars
  <2>2. believed = 0 /\ wanted = None
    BY <1>a, <2>1 DEF BeforeReset
  <2> QED
    BY <1>a, <2>1, <2>2
    DEF ReadyInv, Shapes, BeforeReset, Received, InCalls, Settled, Accepted, Stands
<1>2. CASE MscBusReset
  <2>1. istr_reset' /\ believed' = 0 /\ wanted' = None
    BY <1>2 DEF MscBusReset, BusReset
  <2>2. Shapes'
    <3>1. /\ ep' = [ h \in Halves |-> [ ResetRegs(ep[h]) EXCEPT !.dtog = 0 ] ]
          /\ host' = [ host EXCEPT !.stage = "idle", !.tog = [ in |-> 0, out |-> 0 ],
                                   !.cmd = IF host.stage = "idle" THEN @ ELSE None ]
      BY <1>2 DEF MscBusReset
    <3>2. /\ DOMAIN ep' = Halves
          /\ ep'.in = [ ResetRegs(ep.in) EXCEPT !.dtog = 0 ]
          /\ ep'.out = [ ResetRegs(ep.out) EXCEPT !.dtog = 0 ]
      BY <3>1, ThreeCalls
    <3>3. DOMAIN ep'.in = DOMAIN ep.in /\ DOMAIN ep'.out = DOMAIN ep.out
      BY <3>2 DEF ResetRegs
    <3>4. DOMAIN host' = DOMAIN host /\ DOMAIN host'.tog = {"in", "out"}
      BY <1>a, <3>1 DEF Shapes
    <3> QED
      BY <1>a, <3>2, <3>3, <3>4, ThreeCalls DEF Shapes
  <2> QED
    BY <2>1, <2>2 DEF ReadyInv, BeforeReset, Received, InCalls, Settled, Accepted
<1>3. CASE UNCHANGED vars
  BY <1>3, <1>a DEF vars, stdvars, mscvars, ReadyInv, Shapes, BeforeReset, Received, InCalls,
     Called, Settled, Accepted, Stands, InStep
<1> QED
  BY <1>1, <1>2, <1>3, PollsReady, BusReady, ConfigureReady DEF Next, Device

-----------------------------------------------------------------------------
(* Whatever the class does to its endpoints, the configuration behaves as in *)
(* UsbStandard: a callback only runs when both halves have been set up.      *)

SetUp(h) == pm[h].len > 0
HalvesInv ==
    /\ ep.in.tx # "DISABLED" => SetUp("in")
    /\ ep.out.rx # "DISABLED" => SetUp("out")
    /\ ep.out.ctr_rx \/ ep.in.ctr_tx => SetUp("in") /\ SetUp("out")
MscInv == MemoryInv /\ ReadyInv /\ HalvesInv

LEMMA InitMsc == Init => MscInv
<1>1. Init => HalvesInv
  BY ThreeCalls DEF Init, HalvesInv, NoEp
<1>2. Init => MemoryInv
  BY InitMemory DEF Init
<1> QED
  BY <1>1, <1>2, InitReady DEF MscInv

LEMMA MscStep == MscInv /\ [Next]_vars => [StdNext]_stdvars
<1> SUFFICES ASSUME MscInv, [Next]_vars PROVE [StdNext]_stdvars
  OBVIOUS
<1>1. CASE PollOut \/ PollIn
  <2>1. PICK d : Becomes(d) /\ Polling
    BY <1>1 DEF PollOut, PollIn
  <2>2. SetUp("in") /\ SetUp("out")
    BY <1>1 DEF MscInv, HalvesInv, PollOut, PollIn
  <2>3. Awake(d) \in SUBSET { h \in Halves : pm[h].len > 0 }
    BY <2>2, ThreeCalls DEF Awake, SetUp
  <2>4. ClassCallback
    BY <2>1, <2>3 DEF ClassCallback, Becomes
  <2> QED
    BY <2>4 DEF StdNext
<1>2. CASE MscPollReset \/ MscSetConfiguration \/ MscCall \/ MscRegister
  BY <1>2 DEF MscPollReset, MscSetConfiguration, MscCall, MscRegister, StdNext
<1>3. CASE (\E v \in Values : MscConfigure(v)) \/ MscConfigured \/ MscBusReset
  BY <1>3 DEF MscConfigure, MscConfigured, MscBusReset, StdNext
<1>4. CASE \E h \in Halves : Halt(h) \/ ClearHalt(h)
  BY <1>4 DEF Halt, ClearHalt
<1>5. CASE (\E c \in Commands : Command(c)) \/ HostOut \/ HostIn
  BY <1>5 DEF Command, HostOut, HostIn
<1>6. CASE UNCHANGED vars
  BY <1>6 DEF vars, stdvars
<1> QED
  BY <1>1, <1>2, <1>3, <1>4, <1>5, <1>6 DEF Next, Device

LEMMA NextHalves == MscInv /\ [Next]_vars => HalvesInv'
<1> SUFFICES ASSUME MscInv, [Next]_vars PROVE HalvesInv'
  OBVIOUS
<1>a. HalvesInv /\ Shapes /\ pm \in [ Halves \union Control -> Buffer ] /\ Halves = {"in", "out"}
  BY ThreeCalls DEF MscInv, MemoryInv, StdTypeOK, ReadyInv
<1>1. CASE UNCHANGED pm /\ SetUp("in") /\ SetUp("out")
  BY <1>1 DEF HalvesInv, SetUp
<1>2. CASE PollOut \/ PollIn
  <2>1. SetUp("in") /\ SetUp("out")
    BY <1>2, <1>a DEF HalvesInv, PollOut, PollIn
  <2>2. UNCHANGED pm
    BY <1>2 DEF PollOut, PollIn, Becomes, Enables
  <2> QED
    BY <1>1, <2>1, <2>2
<1>3. CASE MscPollReset
  <2>1. \A h \in Halves : pm'[h] = pm[h]
    BY <1>3, <1>a, StandardAssumption DEF MscPollReset, PollReset, Control
  <2>2. UNCHANGED ep
    BY <1>3 DEF MscPollReset, mscvars
  <2> QED
    BY <1>a, <2>1, <2>2 DEF HalvesInv, SetUp
<1>4. CASE MscSetConfiguration
  <2>1. UNCHANGED pm
    BY <1>4 DEF MscSetConfiguration, SetConfiguration, endpoints_reset
  <2>2. \/ UNCHANGED ep
        \/ ep' = [ h \in Halves |-> [ ep[h] EXCEPT !.tx = "DISABLED", !.rx = "DISABLED" ] ]
    BY <1>4 DEF MscSetConfiguration
  <2>3. /\ ep'.in.tx # "DISABLED" => ep.in.tx # "DISABLED"
        /\ ep'.out.rx # "DISABLED" => ep.out.rx # "DISABLED"
        /\ ep'.out.ctr_rx = ep.out.ctr_rx /\ ep'.in.ctr_tx = ep.in.ctr_tx
    BY <1>a, <2>2 DEF Shapes, EpFields
  <2> QED
    BY <1>a, <2>1, <2>3 DEF HalvesInv, SetUp
<1>5. CASE MscCall
  <2>1. call \in 0 .. 3 /\ call # 0 /\ Calls[call] # "control"
    BY <1>5, ThreeCalls DEF MscInv, MemoryInv, StdTypeOK, MscCall, CallSetup
  <2>2. call \in {1, 2} /\ Calls[call] \in Halves
    BY <2>1, ThreeCalls
  <2> DEFINE h == Calls[call]
  <2>3. /\ pm' = [ pm EXCEPT ![h] = [ at |-> pm_top, len |-> Room(h) ] ]
        /\ ep' = IF h = "in" THEN [ ep EXCEPT !.in.tx = "NAK", !.in.dtog = 0 ]
                 ELSE [ ep EXCEPT !.out.rx = "VALID", !.out.dtog = 0 ]
    BY <1>5 DEF MscCall, CallSetup, ep_setup_half
  <2>4. Room(h) > 0
    BY <2>2, RoomIsSome
  <2> HIDE DEF h
  <2>5. h \in {"in", "out"}
    BY <1>a, <2>2 DEF h
  <2>6. pm'[h].len > 0 /\ \A g \in Halves : pm[g].len > 0 => pm'[g].len > 0
    BY <1>a, <2>3, <2>4, <2>5
  <2>7. /\ ep'.in.tx # "DISABLED" => ep.in.tx # "DISABLED" \/ h = "in"
        /\ ep'.out.rx # "DISABLED" => ep.out.rx # "DISABLED" \/ h = "out"
        /\ ep'.out.ctr_rx = ep.out.ctr_rx /\ ep'.in.ctr_tx = ep.in.ctr_tx
    BY <1>a, <2>3, <2>5 DEF Shapes, EpFields
  <2> QED
    BY <1>a, <2>6, <2>7 DEF HalvesInv, SetUp
<1>6. CASE MscRegister \/ (\E v \in Values : MscConfigure(v)) \/ MscConfigured
  BY <1>6, <1>a
  DEF MscRegister, CallRegister, MscConfigure, Configure, MscConfigured, Configured, mscvars,
      HalvesInv, SetUp
<1>7. CASE MscBusReset
  <2>1. UNCHANGED pm /\ ep' = [ h \in Halves |-> [ ResetRegs(ep[h]) EXCEPT !.dtog = 0 ] ]
    BY <1>7 DEF MscBusReset, BusReset
  <2>2. /\ ep'.in.tx = "DISABLED" /\ ep'.out.rx = "DISABLED"
        /\ ep'.out.ctr_rx = ep.out.ctr_rx /\ ep'.in.ctr_tx = ep.in.ctr_tx
    BY <1>a, <2>1 DEF ResetRegs, Shapes, EpFields
  <2> QED
    BY <1>a, <2>1, <2>2 DEF HalvesInv, SetUp
<1>8. CASE \/ \E h \in Halves : Halt(h) \/ ClearHalt(h)
           \/ \E c \in Commands : Command(c)
           \/ HostOut \/ HostIn
  <2>1. OnBus /\ UNCHANGED pm
    BY <1>8 DEF Halt, ClearHalt, Command, HostOut, HostIn, stdvars
  <2>2. ep.in.tx # "DISABLED" /\ ep.out.rx # "DISABLED"
    BY <2>1 DEF MscInv, ReadyInv, OnBus, InCalls, Settled, Stands
  <2> QED
    BY <1>1, <1>a, <2>1, <2>2 DEF HalvesInv
<1>9. CASE UNCHANGED vars
  BY <1>9, <1>a DEF vars, stdvars, mscvars, HalvesInv, SetUp
<1> QED
  BY <1>2, <1>3, <1>4, <1>5, <1>6, <1>7, <1>8, <1>9 DEF Next, Device

LEMMA MscInvariant == Spec => []MscInv
<1>1. MscInv /\ [Next]_vars => MscInv'
  <2>1. MscInv /\ [Next]_vars => MemoryInv'
    BY MscStep, NextMemory DEF MscInv
  <2>2. MscInv /\ [Next]_vars => ReadyInv'
    BY NextReady DEF MscInv, MemoryInv
  <2> QED
    BY <2>1, <2>2, NextHalves DEF MscInv
<1> QED
  BY <1>1, InitMsc, PTL DEF Spec

LEMMA MscConfigures == Spec => StdSpec
<1>1. Init => StdInit
  BY DEF Init
<1> QED
  BY <1>1, MscInvariant, MscStep, PTL DEF Spec, StdSpec

(* PacketMemory: for every packet size, every list of calls whose sizes fit  *)
(* and any number of resets and configurations, also in the middle of the    *)
(* set-config callbacks or with a packet still to be handled, no two buffers *)
(* in use overlap and none leaves the packet memory (st_usbfs_core.c:106,    *)
(* 119, 132, 241).                                                           *)
THEOREM MemorySafe == Spec => []PacketMemory
<1>1. MscInv => PacketMemory
  BY MemoryIsEnough DEF MscInv
<1> QED
  BY <1>1, MscInvariant, PTL

(* Ready: for every set of configurations and requests, every size and any   *)
(* interleaving of resets, configurations, halts and transfers, a device     *)
(* that its host believes configured is configured, with its endpoints in    *)
(* step and its control callback registered once (usb_standard.c:277-308,    *)
(* usb_msc.c:758-775).                                                       *)
THEOREM HostIsRight == Spec => []Ready
<1>1. MscInv => Ready
  BY ReadyIsEnough DEF MscInv
<1> QED
  BY <1>1, MscInvariant, PTL

=============================================================================
