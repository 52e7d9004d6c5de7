-------------------------- MODULE OTOperationProofs --------------------------
(***************************************************************************)
(* Proofs about OTOperation.  None of the properties is inductive: what    *)
(* lands in an object was in a message before, and what stands in a        *)
(* message was in an object or the native buffer.  OperationInv says what  *)
(* is known of a message on its way.                                       *)
(***************************************************************************)
EXTENDS OTOperation, TLAPS

MemTypes == {"WHOLE", "PARTIAL_OUTPUT", "PARTIAL_INOUT"}

\* The message c for the memory reference p.
MemMessage(p, c) ==
    /\ c \in Contents
    /\ InPlace(c.buffer)
    /\ c.returnSize \in {0} \cup reported[p.obj]
    /\ memFlags[p.obj] # Null
    /\ memFlags[p.obj] = "INPUT" => c.returnSize = 0

\* The message c for the value p.
ValMessage(p, c) ==
    /\ c \in [x : Versions]
    /\ valFlag[p.obj] = "INPUT" => c.x = value[p.obj]

MessageInv ==
    \A t \in Threads, k \in Slots : pc[t] # "idle" =>
        /\ params[t][k].kind = "smr" => MemMessage(params[t][k], message[t][k])
        /\ params[t][k].kind = "val" => ValMessage(params[t][k], message[t][k])

\* A parameter the TEE sees as output has an object that is for output.
TypesInv ==
    \A t \in Threads, k \in Slots : pc[t] = "inTEE" =>
        /\ paramTypes[t][k] \in MemTypes
              => params[t][k].kind = "smr" /\ sm[params[t][k].obj] \in Buffers
        /\ OutputValue(t, k)
              => params[t][k].kind = "val" /\ valFlag[params[t][k].obj] # "INPUT"

\* An input memory never has a return size.
SizeInv == \A m \in Memories : memFlags[m] \in {Null, "INPUT"} => mReturnSize[m] = 0

OperationInv ==
    /\ TypeOK
    /\ BytesKeepPosition
    /\ ReturnSizesAreReported
    /\ MessageInv
    /\ TypesInv
    /\ SizeInv

-----------------------------------------------------------------------------
\* The kind of a parameter tells which object it refers to.
LEMMA ParamKinds ==
    ASSUME NEW p \in Params
    PROVE  /\ p.kind = "smr" => p \in MemParams /\ p.obj \in Memories
           /\ p.kind = "val" => p \in ValParams /\ p.obj \in Values
           /\ p.kind \notin {"smr", "val"} => p = Empty
  BY DEF Params, MemParams, Offsets, ValParams, Empty

\* The invariant holds initially.
LEMMA InitInv == Init => OperationInv
<1> SUFFICES ASSUME Init PROVE OperationInv
  OBVIOUS
<1> USE SizeAssumption DEF Init
<1>1. PICK v \in Versions :
          /\ mBuffer = [m \in Memories |-> [i \in Positions |-> <<i, v>>]]
          /\ value = [w \in Values |-> v]
  OBVIOUS
<1>2. [i \in Positions |-> <<i, v>>] \in Buffers
  BY DEF Buffers, Bytes
<1>3. NoParams \in [Slots -> Params] /\ NoParams \in [Slots -> Messages]
  BY DEF NoParams, Params, Messages
<1>4. TypeOK
  <2>1. 0 \in 0..Size /\ 1 \in Nat /\ NoTypes \in [Slots -> ParamTypes]
    BY DEF NoTypes, ParamTypes
  <2>2. mBuffer \in [Memories -> Buffers] /\ value \in [Values -> Versions]
    <3> HIDE DEF Init
    <3> QED BY <1>1, <1>2
  <2>3. /\ params \in [Threads -> [Slots -> Params]]
        /\ message \in [Threads -> [Slots -> Messages]]
        /\ paramTypes \in [Threads -> [Slots -> ParamTypes]]
    BY <1>3, <2>1
  <2>4. /\ memFlags \in [Memories -> Flags \cup {Null}]
        /\ mReturnSize \in [Memories -> 0..Size]
        /\ sm \in [Memories -> Buffers \cup {NoBuffer}]
        /\ valFlag \in [Values -> Flags]
        /\ pc \in [Threads -> {"idle", "sent", "inTEE", "served"}]
        /\ slot \in [Threads -> Nat]
        /\ reported \in [Memories -> SUBSET (0..Size)]
    BY <2>1
  <2> QED
    BY <2>2, <2>3, <2>4 DEF TypeOK
<1>5. BytesKeepPosition
  BY <1>1 DEF BytesKeepPosition, InPlace
<1> QED
  BY <1>4, <1>5 DEF OperationInv, ReturnSizesAreReported, MessageInv, TypesInv, SizeInv

\* What memcpy leaves in the native buffer stands in its place.
LEMMA MemcpyInPlace ==
    ASSUME NEW old \in Buffers, NEW new \in Buffers, InPlace(old), InPlace(new)
    PROVE  memcpy(old, new) \in Buffers /\ InPlace(memcpy(old, new))
  BY DEF memcpy, Buffers, InPlace

\* And so does what updateBuffer leaves in the application's array.
LEMMA UpdateInPlace ==
    ASSUME NEW old \in Buffers, NEW new \in Buffers, NEW offset \in Nat, NEW n \in Nat,
           InPlace(old), InPlace(new)
    PROVE  /\ updateBuffer(old, new, offset, n) \in Buffers
           /\ InPlace(updateBuffer(old, new, offset, n))
  BY DEF updateBuffer, Buffers, InPlace

\* What a TA does to the native buffers leaves them in place.
LEMMA WrittenInPlace ==
    ASSUME OperationInv, NEW t \in Threads, pc[t] = "inTEE",
           NEW w \in SUBSET Positions, NEW v \in Versions
    PROVE  /\ WrittenByTA(t, w, v) \in [Memories -> Buffers \cup {NoBuffer}]
           /\ \A m \in Memories : sm[m] \in Buffers => WrittenByTA(t, w, v)[m] \in Buffers
           /\ \A m \in Memories : WrittenByTA(t, w, v)[m] # NoBuffer
                                      => InPlace(WrittenByTA(t, w, v)[m])
<1> DEFINE Touched(m) == [i \in Positions |-> IF i \in w THEN <<i, v>> ELSE sm[m][i]]
<1>1. ASSUME NEW m \in Writable(t)
      PROVE  sm[m] \in Buffers
  BY <1>1 DEF OperationInv, TypesInv, Writable, MemTypes
<1>2. ASSUME NEW m \in Memories, sm[m] \in Buffers, InPlace(sm[m])
      PROVE  Touched(m) \in Buffers /\ InPlace(Touched(m))
  BY <1>2 DEF Buffers, Bytes, InPlace
<1>3. \A m \in Memories : sm[m] # NoBuffer => InPlace(sm[m])
  BY DEF OperationInv, BytesKeepPosition
<1>4. sm \in [Memories -> Buffers \cup {NoBuffer}] /\ Writable(t) \subseteq Memories
  BY DEF OperationInv, TypeOK, Writable
<1>5. ASSUME NEW m \in Memories
      PROVE  WrittenByTA(t, w, v)[m] = IF m \in Writable(t) THEN Touched(m) ELSE sm[m]
  BY DEF WrittenByTA
<1>6. ASSUME NEW m \in Memories
      PROVE  /\ WrittenByTA(t, w, v)[m] \in Buffers \cup {NoBuffer}
             /\ sm[m] \in Buffers => WrittenByTA(t, w, v)[m] \in Buffers
             /\ WrittenByTA(t, w, v)[m] # NoBuffer => InPlace(WrittenByTA(t, w, v)[m])
  <2> HIDE DEF Touched
  <2>1. CASE m \in Writable(t)
    BY <2>1, <1>1, <1>2, <1>3, <1>5, NullAssumption DEF NoBuffer
  <2>2. CASE m \notin Writable(t)
    BY <2>2, <1>3, <1>4, <1>5
  <2> QED
    BY <2>1, <2>2
<1>7. WrittenByTA(t, w, v) = [m \in Memories |-> WrittenByTA(t, w, v)[m]]
  BY DEF WrittenByTA
<1> QED
  BY <1>6, <1>7

\* What a message was made of is not touched by writing to the buffer afterwards.
LEMMA MessageUntouched ==
    ASSUME MessageInv,
           UNCHANGED <<memFlags, valFlag, value, pc, params, message, reported>>
    PROVE  MessageInv'
BY DEF MessageInv, MemMessage, ValMessage, InPlace

-----------------------------------------------------------------------------
\* Steps of the application on its memory keep the invariant.
LEMMA MemorySteps ==
    ASSUME OperationInv, NEW m \in Memories,
           \/ \E flags \in Flags : registerSharedMemory(m, flags)
           \/ releaseSharedMemory(m)
           \/ \E i \in Positions, v \in Versions : Write(m, i, v)
    PROVE  OperationInv'
<1> USE DEF OperationInv, objectVars, threadVars
<1>1. ASSUME NEW flags \in Flags, registerSharedMemory(m, flags)
      PROVE  OperationInv'
  <2> USE <1>1 DEF registerSharedMemory
  <2>1. TypeOK'
    BY DEF TypeOK
  <2>2. BytesKeepPosition' /\ ReturnSizesAreReported'
    <3>1. BytesKeepPosition'
      BY DEF TypeOK, BytesKeepPosition, InPlace
    <3>2. ReturnSizesAreReported'
      BY DEF TypeOK, ReturnSizesAreReported
    <3> QED BY <3>1, <3>2
  <2>3. MessageInv'
    BY ParamKinds DEF TypeOK, MessageInv, MemMessage, ValMessage, InPlace
  <2>4. TypesInv'
    BY ParamKinds DEF TypeOK, TypesInv, OutputValue
  <2>5. SizeInv'
    BY DEF TypeOK, SizeInv
  <2> QED
    BY <2>1, <2>2, <2>3, <2>4, <2>5
<1>2. ASSUME releaseSharedMemory(m)
      PROVE  OperationInv'
  <2> USE <1>2 DEF releaseSharedMemory
  <2>1. TypeOK'
    BY DEF TypeOK
  <2>2. BytesKeepPosition' /\ ReturnSizesAreReported'
    <3>1. BytesKeepPosition'
      BY DEF TypeOK, BytesKeepPosition, InPlace
    <3>2. ReturnSizesAreReported'
      BY DEF TypeOK, ReturnSizesAreReported
    <3> QED BY <3>1, <3>2
  <2>3. MessageInv'
    BY DEF MessageInv, MemMessage, ValMessage, InPlace
  <2>4. TypesInv'
    BY DEF TypesInv, ServiceFree
  <2>5. SizeInv'
    BY DEF SizeInv
  <2> QED
    BY <2>1, <2>2, <2>3, <2>4, <2>5
<1>3. ASSUME NEW i \in Positions, NEW v \in Versions, Write(m, i, v)
      PROVE  OperationInv'
  <2> USE <1>3 DEF Write
  <2>1. mBuffer' \in [Memories -> Buffers]
    BY DEF TypeOK, Buffers, Bytes
  <2>2. TypeOK'
    BY <2>1 DEF TypeOK
  <2>3. BytesKeepPosition' /\ ReturnSizesAreReported'
    BY DEF TypeOK, Buffers, BytesKeepPosition, ReturnSizesAreReported, InPlace
  <2>4. MessageInv'
    <3>1. UNCHANGED <<memFlags, valFlag, value, pc, params, message, reported>>
      BY DEF threadVars
    <3> QED
      BY <3>1, MessageUntouched
  <2>5. TypesInv'
    BY DEF TypesInv, OutputValue
  <2>6. SizeInv'
    BY DEF SizeInv
  <2> QED
    BY <2>2, <2>3, <2>4, <2>5, <2>6
<1> QED
  BY <1>1, <1>2, <1>3

\* Serialising an operation keeps the invariant.
LEMMA SendStep ==
    ASSUME OperationInv, NEW t \in Threads, NEW ps \in [Slots -> Params],
           OperationAsByteArray(t, ps)
    PROVE  OperationInv'
<1> USE DEF OperationInv, objectVars
<1> DEFINE sent == [k \in Slots |-> ParamAsMessage(ps[k])]
<1>1. ASSUME NEW k \in Slots
      PROVE  /\ sent[k] \in Messages
             /\ ps[k].kind = "smr" => MemMessage(ps[k], sent[k])
             /\ ps[k].kind = "val" => ValMessage(ps[k], sent[k])
  <2> DEFINE p == ps[k]
  <2>1. p \in Params /\ sent[k] = ParamAsMessage(p)
    OBVIOUS
  <2>2. CASE p.kind = "smr"
    <3>1. p.obj \in Memories /\ memFlags[p.obj] # Null
      BY <2>1, <2>2, ParamKinds DEF OperationAsByteArray
    <3>2. sent[k] = [buffer |-> mBuffer[p.obj], returnSize |-> mReturnSize[p.obj]]
      BY <2>1, <2>2 DEF ParamAsMessage
    <3>3. mBuffer[p.obj] \in Buffers /\ mReturnSize[p.obj] \in 0..Size
      BY <3>1 DEF TypeOK
    <3>4. sent[k] \in Contents /\ sent[k].buffer = mBuffer[p.obj]
                               /\ sent[k].returnSize = mReturnSize[p.obj]
      <4> HIDE DEF p, sent
      <4> QED BY <3>2, <3>3 DEF Contents
    <3> QED
      BY <2>2, <3>1, <3>4 DEF MemMessage, BytesKeepPosition, ReturnSizesAreReported, SizeInv,
         Messages
  <2>3. CASE p.kind = "val"
    <3>1. p.obj \in Values
      BY <2>1, <2>3, ParamKinds
    <3>2. sent[k] = [x |-> value[p.obj]]
      BY <2>1, <2>3 DEF ParamAsMessage
    <3>3. value[p.obj] \in Versions
      BY <3>1 DEF TypeOK
    <3>4. sent[k] \in [x : Versions] /\ sent[k].x = value[p.obj]
      <4> HIDE DEF p, sent
      <4> QED BY <3>2, <3>3
    <3> QED
      BY <2>3, <3>4 DEF ValMessage, Messages
  <2>4. CASE p.kind \notin {"smr", "val"}
    BY <2>1, <2>4 DEF ParamAsMessage, Messages
  <2> QED
    BY <2>2, <2>3, <2>4
<1>2. /\ pc' = [pc EXCEPT ![t] = "sent"]
      /\ params' = [params EXCEPT ![t] = ps]
      /\ message' = [message EXCEPT ![t] = sent]
      /\ UNCHANGED <<objectVars, sm, paramTypes, slot, reported>>
  BY DEF OperationAsByteArray
<1>3. sent \in [Slots -> Messages]
  BY <1>1
<1> HIDE DEF sent
<1>4. TypeOK'
  BY <1>2, <1>3 DEF TypeOK
<1>5. BytesKeepPosition' /\ ReturnSizesAreReported' /\ SizeInv'
  BY <1>2 DEF BytesKeepPosition, InPlace, ReturnSizesAreReported, SizeInv
<1>6. MessageInv'
  <2> SUFFICES ASSUME NEW u \in Threads, NEW k \in Slots, pc'[u] # "idle"
               PROVE  /\ params'[u][k].kind = "smr" => MemMessage(params[u][k], message[u][k])'
                      /\ params'[u][k].kind = "val" => ValMessage(params[u][k], message[u][k])'
    BY DEF MessageInv
  <2>1. CASE u = t
    BY <1>1, <1>2, <2>1 DEF TypeOK, MemMessage, ValMessage, InPlace
  <2>2. CASE u # t
    BY <1>2, <2>2 DEF TypeOK, MessageInv, MemMessage, ValMessage, InPlace
  <2> QED
    BY <2>1, <2>2
<1>7. TypesInv'
  BY <1>2 DEF TypeOK, TypesInv, OutputValue
<1> QED
  BY <1>4, <1>5, <1>6, <1>7

\* The conversion in the native layer keeps the invariant.
LEMMA TransferStep ==
    ASSUME OperationInv, NEW t \in Threads, transfer_opString_to_TEEC_Operation(t)
    PROVE  OperationInv'
<1> USE DEF OperationInv, objectVars
<1>1. /\ pc[t] = "sent" /\ pc' = [pc EXCEPT ![t] = "inTEE"] /\ ServiceFree
      /\ sm' = [m \in Memories |->
                IF CopiedFrom(t, m) = {} THEN sm[m]
                ELSE memcpy(sm[m], message[t][CHOOSE k \in CopiedFrom(t, m) : TRUE].buffer)]
      /\ paramTypes' = [paramTypes EXCEPT ![t] =
                        IF \A k \in Slots : Known(t, k)
                        THEN [k \in Slots |-> ParamType(params[t][k])]
                        ELSE NoTypes]
      /\ UNCHANGED <<objectVars, params, message, slot, reported>>
  BY DEF transfer_opString_to_TEEC_Operation
<1>2. ASSUME NEW m \in Memories
      PROVE  /\ sm'[m] \in Buffers \cup {NoBuffer}
             /\ sm[m] \in Buffers => sm'[m] \in Buffers
             /\ sm'[m] # NoBuffer => InPlace(sm'[m])
  <2>1. CASE CopiedFrom(t, m) = {}
    BY <1>1, <2>1 DEF TypeOK, BytesKeepPosition
  <2>2. CASE CopiedFrom(t, m) # {}
    <3> DEFINE k == CHOOSE k \in CopiedFrom(t, m) : TRUE
    <3>1. k \in CopiedFrom(t, m)
      BY <2>2
    <3> HIDE DEF k
    <3>2. k \in Slots /\ params[t][k].kind = "smr" /\ params[t][k].obj = m /\ Known(t, k)
      BY <3>1 DEF CopiedFrom
    <3>3. sm[m] \in Buffers /\ InPlace(sm[m])
      BY <3>2, SizeAssumption DEF Known, TypeOK, BytesKeepPosition
    <3>4. message[t][k].buffer \in Buffers /\ InPlace(message[t][k].buffer)
      BY <1>1, <3>2 DEF MessageInv, MemMessage, Contents
    <3>5. sm'[m] = memcpy(sm[m], message[t][k].buffer)
      BY <1>1, <2>2 DEF k
    <3> QED
      BY <3>3, <3>4, <3>5, MemcpyInPlace
  <2> QED
    BY <2>1, <2>2
<1>3. ASSUME NEW k \in Slots
      PROVE  /\ ParamType(params[t][k]) \in ParamTypes
             /\ ParamType(params[t][k]) \in MemTypes => params[t][k].kind = "smr"
             /\ ParamType(params[t][k]) \in {"VALUE_OUTPUT", "VALUE_INOUT"}
                   => params[t][k].kind = "val" /\ valFlag[params[t][k].obj] # "INPUT"
  BY DEF ParamType, ParamTypes, MemTypes
<1>4. sm' = [m \in Memories |-> sm'[m]]
  BY <1>1
<1>5. TypeOK'
  <2>1. sm' \in [Memories -> Buffers \cup {NoBuffer}]
    BY <1>2, <1>4
  <2>2. paramTypes' \in [Threads -> [Slots -> ParamTypes]]
    BY <1>1, <1>3 DEF TypeOK, NoTypes, ParamTypes
  <2> QED
    BY <1>1, <2>1, <2>2 DEF TypeOK
<1>6. BytesKeepPosition' /\ ReturnSizesAreReported' /\ SizeInv'
  BY <1>1, <1>2 DEF BytesKeepPosition, InPlace, ReturnSizesAreReported, SizeInv
<1>7. MessageInv'
  BY <1>1 DEF TypeOK, MessageInv, MemMessage, ValMessage, InPlace
<1>8. TypesInv'
  <2> SUFFICES ASSUME NEW u \in Threads, NEW k \in Slots, pc'[u] = "inTEE"
               PROVE  /\ paramTypes'[u][k] \in MemTypes
                            => params[u][k].kind = "smr" /\ sm'[params[u][k].obj] \in Buffers
                      /\ paramTypes'[u][k] \in {"VALUE_OUTPUT", "VALUE_INOUT"}
                            => params[u][k].kind = "val"
                               /\ valFlag[params[u][k].obj] # "INPUT"
    BY <1>1 DEF TypesInv, OutputValue
  <2>1. u = t
    BY <1>1 DEF TypeOK, ServiceFree
  <2>2. CASE \A j \in Slots : Known(t, j)
    <3>1. paramTypes'[t][k] = ParamType(params[t][k])
      BY <1>1, <2>2 DEF TypeOK
    <3>2. params[t][k].kind = "smr" => sm[params[t][k].obj] \in Buffers
      BY <2>2, ParamKinds, SizeAssumption DEF Known, TypeOK
    <3>3. params[t][k].kind = "smr" => sm'[params[t][k].obj] \in Buffers
      BY <3>2, <1>2, ParamKinds DEF TypeOK
    <3> QED
      BY <1>3, <2>1, <3>1, <3>3
  <2>3. CASE ~ \A j \in Slots : Known(t, j)
    BY <1>1, <2>1, <2>3 DEF TypeOK, NoTypes, MemTypes
  <2> QED
    BY <2>2, <2>3
<1> QED
  BY <1>5, <1>6, <1>7, <1>8

\* A call that ends, in whatever way, keeps the invariant.
LEMMA FinishStep ==
    ASSUME OperationInv, NEW t \in Threads, Finished(t),
           UNCHANGED <<objectVars, reported>>,
           sm' \in [Memories -> Buffers \cup {NoBuffer}],
           \A m \in Memories : sm[m] \in Buffers => sm'[m] \in Buffers,
           \A m \in Memories : sm'[m] # NoBuffer => InPlace(sm'[m])
    PROVE  OperationInv'
<1> USE DEF OperationInv, objectVars
<1>1. NoParams \in [Slots -> Params] /\ NoParams \in [Slots -> Messages]
  BY DEF NoParams, Params, Messages
<1>2. TypeOK'
  BY <1>1 DEF TypeOK, Finished, NoTypes, ParamTypes
<1>3. BytesKeepPosition' /\ ReturnSizesAreReported' /\ SizeInv'
  BY DEF BytesKeepPosition, InPlace, ReturnSizesAreReported, SizeInv
<1>4. MessageInv'
  <2> SUFFICES ASSUME NEW u \in Threads, NEW k \in Slots, pc'[u] # "idle"
               PROVE  /\ params'[u][k].kind = "smr" => MemMessage(params[u][k], message[u][k])'
                      /\ params'[u][k].kind = "val" => ValMessage(params[u][k], message[u][k])'
    BY DEF MessageInv
  <2>1. u # t /\ pc[u] # "idle" /\ params'[u] = params[u] /\ message'[u] = message[u]
    BY DEF TypeOK, Finished
  <2>2. /\ params[u][k].kind = "smr" => MemMessage(params[u][k], message[u][k])
        /\ params[u][k].kind = "val" => ValMessage(params[u][k], message[u][k])
    BY <2>1 DEF MessageInv
  <2> QED
    BY <2>1, <2>2 DEF MemMessage, ValMessage, InPlace
<1>5. TypesInv'
  <2> SUFFICES ASSUME NEW u \in Threads, NEW k \in Slots, pc'[u] = "inTEE"
               PROVE  /\ paramTypes'[u][k] \in MemTypes
                            => params'[u][k].kind = "smr" /\ sm'[params'[u][k].obj] \in Buffers
                      /\ paramTypes'[u][k] \in {"VALUE_OUTPUT", "VALUE_INOUT"}
                            => params'[u][k].kind = "val"
                               /\ valFlag'[params'[u][k].obj] # "INPUT"
    BY DEF TypesInv, OutputValue
  <2>1. u # t /\ pc[u] = "inTEE"
    BY DEF TypeOK, Finished
  <2>2. params'[u] = params[u] /\ paramTypes'[u] = paramTypes[u]
    BY <2>1 DEF TypeOK, Finished
  <2>3. params[u][k] \in Params
    BY DEF TypeOK
  <2> QED
    BY <2>1, <2>2, <2>3, ParamKinds DEF TypesInv, OutputValue
<1> QED
  BY <1>2, <1>3, <1>4, <1>5

\* A call whose message comes back keeps the invariant.
LEMMA ReturnStep ==
    ASSUME OperationInv, NEW t \in Threads, NEW w \in SUBSET Positions, NEW v \in Versions,
           NEW size \in [Slots -> 0..Size], NEW x \in [Slots -> Versions],
           TEEC_Return(t, w, v, size, x)
    PROVE  OperationInv'
<1> USE DEF OperationInv, objectVars
<1> DEFINE back == [k \in Slots |->
                     CASE SyncedBack(t, k) ->
                            [buffer |-> sm'[params[t][k].obj], returnSize |-> size[k]]
                       [] OutputValue(t, k) -> [x |-> x[k]]
                       [] OTHER -> message[t][k]]
           news(m) == {size[k] : k \in {j \in Slots : SyncedBack(t, j)
                                                      /\ params[t][j].obj = m}}
<1>1. /\ pc[t] = "inTEE" /\ pc' = [pc EXCEPT ![t] = "served"]
      /\ sm' = WrittenByTA(t, w, v)
      /\ message' = [message EXCEPT ![t] = back]
      /\ reported' = [m \in Memories |-> reported[m] \cup news(m)]
      /\ paramTypes' = [paramTypes EXCEPT ![t] = NoTypes]
      /\ UNCHANGED <<objectVars, params, slot>>
  BY DEF TEEC_Return
<1>2. /\ sm' \in [Memories -> Buffers \cup {NoBuffer}]
      /\ \A m \in Memories : sm[m] \in Buffers => sm'[m] \in Buffers
      /\ \A m \in Memories : sm'[m] # NoBuffer => InPlace(sm'[m])
  BY <1>1, WrittenInPlace
<1>3. \A m \in Memories : reported[m] \subseteq reported'[m]
  BY <1>1
<1>4. ASSUME NEW k \in Slots
      PROVE  /\ back[k] \in Messages
             /\ params[t][k].kind = "smr" => MemMessage(params[t][k], message[t][k])'
             /\ params[t][k].kind = "val" => ValMessage(params[t][k], message[t][k])'
  <2> DEFINE p == params[t][k]
  <2>0. p \in Params /\ message'[t][k] = back[k] /\ params'[t][k] = p
    BY <1>1 DEF TypeOK
  <2>1. CASE SyncedBack(t, k)
    <3>0. p.kind = "smr" /\ sm[p.obj] \in Buffers
      BY <1>1, <2>1 DEF SyncedBack, TypesInv, MemTypes
    <3>1. p.kind = "smr" /\ p.obj \in Memories /\ sm[p.obj] \in Buffers
      <4> HIDE DEF p, back
      <4> QED BY <2>0, <3>0, ParamKinds
    <3>2. back[k] = [buffer |-> sm'[p.obj], returnSize |-> size[k]]
      <4>1. ~OutputValue(t, k)
        BY <2>1 DEF SyncedBack, OutputValue
      <4> QED BY <2>1, <4>1
    <3>3. sm'[p.obj] \in Buffers /\ InPlace(sm'[p.obj]) /\ size[k] \in 0..Size
      BY <1>2, <3>1, NullAssumption DEF NoBuffer
    <3>4. back[k] \in Contents /\ back[k].buffer = sm'[p.obj] /\ back[k].returnSize = size[k]
      <4> HIDE DEF p, back
      <4> QED BY <3>2, <3>3 DEF Contents
    <3>5. size[k] \in reported'[p.obj]
      BY <1>1, <2>1, <3>1
    <3>6. memFlags[p.obj] # Null /\ memFlags[p.obj] # "INPUT" /\ memFlags' = memFlags
      BY <1>1, <2>1, <3>1 DEF SyncedBack, Output, MessageInv, MemMessage
    <3>7. InPlace(message[t][k].buffer)'
      BY <2>0, <3>3, <3>4 DEF InPlace
    <3> HIDE DEF back, p
    <3>8. MemMessage(params[t][k], message[t][k])'
      BY <2>0, <3>1, <3>4, <3>5, <3>6, <3>7 DEF MemMessage
    <3>9. back[k] \in Messages
      BY <3>4 DEF Messages
    <3> QED
      BY <3>1, <3>8, <3>9 DEF p
  <2>2. CASE ~SyncedBack(t, k) /\ OutputValue(t, k)
    <3>1. p.kind = "val" /\ valFlag[p.obj] # "INPUT"
      BY <1>1, <2>2 DEF TypesInv
    <3>2. back[k] = [x |-> x[k]]
      BY <2>2
    <3>3. back[k] \in [x : Versions]
      <4> HIDE DEF back
      <4> QED BY <3>2
    <3> HIDE DEF back, p
    <3>4. ValMessage(params[t][k], message[t][k])' /\ back[k] \in Messages
      BY <1>1, <2>0, <3>1, <3>3 DEF ValMessage, Messages
    <3> QED
      BY <3>1, <3>4 DEF p
  <2>3. CASE ~SyncedBack(t, k) /\ ~OutputValue(t, k)
    <3>1. back[k] = message[t][k]
      BY <2>3
    <3>2. p.kind = "smr" => MemMessage(p, back[k])
      BY <1>1, <3>1 DEF MessageInv
    <3>3. p.kind = "val" => ValMessage(p, back[k])
      BY <1>1, <3>1 DEF MessageInv
    <3>4. back[k] \in Messages
      BY <3>1 DEF TypeOK
    <3> HIDE DEF back, p
    <3>5. p.kind = "smr" => MemMessage(params[t][k], message[t][k])'
      BY <1>1, <1>3, <2>0, <3>2, ParamKinds DEF MemMessage, InPlace
    <3>6. p.kind = "val" => ValMessage(params[t][k], message[t][k])'
      BY <1>1, <2>0, <3>3 DEF ValMessage
    <3> QED
      BY <3>4, <3>5, <3>6 DEF p
  <2> QED
    BY <2>1, <2>2, <2>3
<1>5. back \in [Slots -> Messages]
  BY <1>4
<1>6. \A m \in Memories : news(m) \subseteq 0..Size
  OBVIOUS
<1> HIDE DEF back, news
<1>7. TypeOK'
  <2>1. reported' \in [Memories -> SUBSET (0..Size)]
    BY <1>1, <1>6 DEF TypeOK
  <2>2. NoTypes \in [Slots -> ParamTypes]
    BY DEF NoTypes, ParamTypes
  <2> QED
    BY <1>1, <1>2, <1>5, <2>1, <2>2 DEF TypeOK
<1>8. BytesKeepPosition' /\ ReturnSizesAreReported' /\ SizeInv'
  BY <1>1, <1>2, <1>3 DEF BytesKeepPosition, InPlace, ReturnSizesAreReported, SizeInv
<1>9. MessageInv'
  <2> SUFFICES ASSUME NEW u \in Threads, NEW k \in Slots, pc'[u] # "idle"
               PROVE  /\ params'[u][k].kind = "smr" => MemMessage(params[u][k], message[u][k])'
                      /\ params'[u][k].kind = "val" => ValMessage(params[u][k], message[u][k])'
    BY DEF MessageInv
  <2>1. CASE u = t
    BY <1>1, <1>4, <2>1
  <2>2. CASE u # t
    <3>1. pc[u] # "idle" /\ message'[u] = message[u] /\ params[u][k] \in Params
      BY <1>1, <2>2 DEF TypeOK
    <3>2. /\ params[u][k].kind = "smr" => MemMessage(params[u][k], message[u][k])
          /\ params[u][k].kind = "val" => ValMessage(params[u][k], message[u][k])
      BY <3>1 DEF MessageInv
    <3>3. params[u][k].kind = "smr" => MemMessage(params[u][k], message[u][k])'
      BY <1>1, <1>3, <3>1, <3>2, ParamKinds DEF MemMessage, InPlace
    <3>4. params[u][k].kind = "val" => ValMessage(params[u][k], message[u][k])'
      BY <1>1, <3>1, <3>2 DEF ValMessage
    <3> QED
      BY <1>1, <3>3, <3>4
  <2> QED
    BY <2>1, <2>2
<1>10. TypesInv'
  <2> SUFFICES ASSUME NEW u \in Threads, NEW k \in Slots, pc'[u] = "inTEE"
               PROVE  /\ paramTypes'[u][k] \in MemTypes
                            => params[u][k].kind = "smr" /\ sm'[params[u][k].obj] \in Buffers
                      /\ paramTypes'[u][k] \in {"VALUE_OUTPUT", "VALUE_INOUT"}
                            => params[u][k].kind = "val"
                               /\ valFlag[params[u][k].obj] # "INPUT"
    BY <1>1 DEF TypesInv, OutputValue
  <2>1. u # t /\ pc[u] = "inTEE" /\ paramTypes'[u] = paramTypes[u] /\ params[u][k] \in Params
    BY <1>1 DEF TypeOK
  <2> QED
    BY <1>2, <2>1, ParamKinds DEF TypesInv, OutputValue
<1> QED
  BY <1>7, <1>8, <1>9, <1>10

\* Writing a parameter back to its object keeps the invariant.
LEMMA UpdateStep ==
    ASSUME OperationInv, NEW t \in Threads, updateOperation(t)
    PROVE  OperationInv'
<1> USE DEF OperationInv
<1> DEFINE p == params[t][slot[t]]
           c == message[t][slot[t]]
<1>1. /\ pc[t] = "served" /\ slot[t] \in Slots /\ p \in Params
      /\ sm' = sm /\ reported' = reported
  BY DEF updateOperation, TypeOK
<1>2. CASE p.kind = "smr" /\ p.offset + c.returnSize > Size
  <2>1. Finished(t) /\ UNCHANGED objectVars
    BY <1>2 DEF updateOperation
  <2> QED
    BY <1>1, <2>1, FinishStep DEF TypeOK, BytesKeepPosition
<1>3. CASE ~(p.kind = "smr" /\ p.offset + c.returnSize > Size)
  <2>1. /\ slot' = [slot EXCEPT ![t] = @ + 1]
        /\ IF p.kind = "smr"
           THEN /\ mBuffer' = [mBuffer EXCEPT ![p.obj] =
                      updateBuffer(@, c.buffer, p.offset, c.returnSize)]
                /\ mReturnSize' = [mReturnSize EXCEPT ![p.obj] =
                      returnedSize(p.offset, c.returnSize)]
           ELSE UNCHANGED <<mBuffer, mReturnSize>>
        /\ value' = IF p.kind = "val" THEN [value EXCEPT ![p.obj] = c.x] ELSE value
        /\ UNCHANGED <<memFlags, valFlag, pc, params, message, paramTypes>>
    BY <1>3 DEF updateOperation
  <2>2. p.kind = "smr" => p \in MemParams /\ MemMessage(p, c)
    BY <1>1, ParamKinds DEF MessageInv
  <2>3. p.kind = "val" => p \in ValParams /\ ValMessage(p, c)
    BY <1>1, ParamKinds DEF MessageInv
  <2> HIDE DEF p, c
  <2>4. /\ value' \in [Values -> Versions]
        /\ \A w \in Values : valFlag[w] = "INPUT" => value'[w] = value[w]
    BY <2>1, <2>3 DEF TypeOK, ValParams, ValMessage
  <2>5. /\ mBuffer' \in [Memories -> Buffers]
        /\ \A m \in Memories : InPlace(mBuffer'[m])
    <3>1. CASE p.kind = "smr"
      <4>1. p.obj \in Memories /\ p.offset \in Nat /\ c.buffer \in Buffers
                               /\ c.returnSize \in Nat /\ InPlace(c.buffer)
        BY <2>2, <3>1, SizeAssumption DEF MemParams, Offsets, MemMessage, Contents
      <4>2. mBuffer[p.obj] \in Buffers /\ InPlace(mBuffer[p.obj])
        BY <4>1 DEF TypeOK, BytesKeepPosition
      <4>3. /\ updateBuffer(mBuffer[p.obj], c.buffer, p.offset, c.returnSize) \in Buffers
            /\ InPlace(updateBuffer(mBuffer[p.obj], c.buffer, p.offset, c.returnSize))
        BY <4>1, <4>2, UpdateInPlace
      <4> QED
        BY <2>1, <3>1, <4>1, <4>3 DEF TypeOK, BytesKeepPosition
    <3>2. CASE p.kind # "smr"
      BY <2>1, <3>2 DEF TypeOK, BytesKeepPosition
    <3> QED
      BY <3>1, <3>2
  <2>6. /\ mReturnSize' \in [Memories -> 0..Size]
        /\ \A m \in Memories : mReturnSize'[m] \in {0} \cup reported[m]
        /\ \A m \in Memories : memFlags[m] \in {Null, "INPUT"} => mReturnSize'[m] = 0
    <3>1. CASE p.kind = "smr"
      <4>1. /\ p.obj \in Memories /\ c.returnSize \in 0..Size
            /\ c.returnSize \in {0} \cup reported[p.obj]
            /\ memFlags[p.obj] \in {Null, "INPUT"} => c.returnSize = 0
        BY <2>2, <3>1 DEF MemParams, MemMessage, Contents
      <4>2. mReturnSize' = [mReturnSize EXCEPT ![p.obj] = c.returnSize]
        BY <2>1, <3>1 DEF returnedSize
      <4> QED
        BY <4>1, <4>2 DEF TypeOK, ReturnSizesAreReported, SizeInv
    <3>2. CASE p.kind # "smr"
      BY <2>1, <3>2 DEF TypeOK, ReturnSizesAreReported, SizeInv
    <3> QED
      BY <3>1, <3>2
  <2>7. TypeOK'
    BY <1>1, <2>1, <2>4, <2>5, <2>6 DEF TypeOK
  <2>8. BytesKeepPosition' /\ ReturnSizesAreReported' /\ SizeInv'
    BY <1>1, <2>1, <2>5, <2>6 DEF BytesKeepPosition, InPlace, ReturnSizesAreReported, SizeInv
  <2>9. MessageInv'
    <3> SUFFICES ASSUME NEW u \in Threads, NEW k \in Slots, pc'[u] # "idle"
                 PROVE  /\ params'[u][k].kind = "smr" => MemMessage(params[u][k], message[u][k])'
                        /\ params'[u][k].kind = "val" => ValMessage(params[u][k], message[u][k])'
      BY DEF MessageInv
    <3>1. params[u][k] \in Params /\ pc[u] # "idle"
      BY <2>1 DEF TypeOK
    <3> QED
      BY <1>1, <2>1, <2>4, <3>1, ParamKinds DEF MessageInv, MemMessage, ValMessage, InPlace
  <2>10. TypesInv'
    BY <1>1, <2>1 DEF TypesInv, OutputValue
  <2> QED
    BY <2>7, <2>8, <2>9, <2>10
<1> QED
  BY <1>2, <1>3

-----------------------------------------------------------------------------
\* Every step keeps the invariant.
LEMMA NextInv == OperationInv /\ [Next]_vars => OperationInv'
<1> SUFFICES ASSUME OperationInv, [Next]_vars PROVE OperationInv'
  OBVIOUS
<1>1. ASSUME NEW m \in Memories,
             \/ \E flags \in Flags : registerSharedMemory(m, flags)
             \/ releaseSharedMemory(m)
             \/ \E i \in Positions, v \in Versions : Write(m, i, v)
      PROVE  OperationInv'
  BY <1>1, MemorySteps
<1>2. ASSUME NEW t \in Threads, NEW ps \in [Slots -> Params], OperationAsByteArray(t, ps)
      PROVE  OperationInv'
  BY <1>2, SendStep
<1>3. ASSUME NEW t \in Threads, transfer_opString_to_TEEC_Operation(t)
      PROVE  OperationInv'
  BY <1>3, TransferStep
<1>4. ASSUME NEW t \in Threads, NEW w \in SUBSET Positions, NEW v \in Versions,
             NEW size \in [Slots -> 0..Size], NEW x \in [Slots -> Versions],
             TEEC_Return(t, w, v, size, x)
      PROVE  OperationInv'
  BY <1>4, ReturnStep
<1>5. ASSUME NEW t \in Threads, NEW w \in SUBSET Positions, NEW v \in Versions,
             TEEC_Fail(t, w, v)
      PROVE  OperationInv'
  <2>1. pc[t] = "inTEE" /\ sm' = WrittenByTA(t, w, v) /\ Finished(t)
        /\ UNCHANGED <<objectVars, reported>>
    BY <1>5 DEF TEEC_Fail
  <2> QED
    BY <2>1, WrittenInPlace, FinishStep
<1>6. ASSUME NEW t \in Threads, updateOperation(t)
      PROVE  OperationInv'
  BY <1>6, UpdateStep
<1>7. ASSUME NEW t \in Threads, CallReturns(t)
      PROVE  OperationInv'
  <2>1. Finished(t) /\ UNCHANGED <<objectVars, reported>> /\ sm' = sm
    BY <1>7 DEF CallReturns
  <2> QED
    BY <2>1, FinishStep DEF OperationInv, TypeOK, BytesKeepPosition
<1>8. CASE UNCHANGED vars
  <2>1. TypeOK'
    BY <1>8 DEF vars, objectVars, threadVars, OperationInv, TypeOK
  <2>2. BytesKeepPosition'
    BY <1>8 DEF vars, objectVars, OperationInv, BytesKeepPosition, InPlace
  <2>3. ReturnSizesAreReported' /\ SizeInv'
    BY <1>8 DEF vars, objectVars, OperationInv, ReturnSizesAreReported, SizeInv
  <2>4. MessageInv'
    BY <1>8, MessageUntouched DEF vars, objectVars, threadVars, OperationInv
  <2>5. TypesInv'
    BY <1>8 DEF vars, objectVars, threadVars, OperationInv, TypesInv, OutputValue
  <2> QED BY <2>1, <2>2, <2>3, <2>4, <2>5 DEF OperationInv
<1> QED
  BY <1>1, <1>2, <1>3, <1>4, <1>5, <1>6, <1>7, <1>8 DEF Next

\* The inductive invariant holds in every reachable state.
THEOREM OperationInvHolds == Spec => []OperationInv
  BY InitInv, NextInv, PTL DEF Spec

\* Every reachable state of the objects, messages and native buffers is
\* type-correct, whatever the sizes, slots and threads.
THEOREM TypeCorrect == Spec => []TypeOK
<1>1. OperationInv => TypeOK
  BY DEF OperationInv
<1> QED
  BY <1>1, OperationInvHolds, PTL

\* A byte never changes its place on the way through updateBuffer, memcpy and
\* the messages, for any number of threads and parameters.
THEOREM BytesStayInPlace == Spec => []BytesKeepPosition
<1>1. OperationInv => BytesKeepPosition
  BY DEF OperationInv
<1> QED
  BY <1>1, OperationInvHolds, PTL

\* A return size that the application can read was reported by the TEE.
THEOREM ReturnSizesAreTrue == Spec => []ReturnSizesAreReported
<1>1. OperationInv => ReturnSizesAreReported
  BY DEF OperationInv
<1> QED
  BY <1>1, OperationInvHolds, PTL

\* An update with size zero leaves the array as it is.
LEMMA UpdateNothing ==
    ASSUME NEW old \in Buffers, NEW new, NEW offset \in Nat
    PROVE  updateBuffer(old, new, offset, 0) = old
  BY DEF updateBuffer, Buffers

\* No call changes an input memory or an input value of the application
\* (updateOperation after transfer_TEEC_Operation_to_op).
THEOREM InputsStay == Spec => InputsAreKept
<1>1. OperationInv /\ [Next]_vars => [InputsAreKeptStep]_vars
  <2> SUFFICES ASSUME OperationInv, Next PROVE InputsAreKeptStep
    BY DEF vars
  <2> USE DEF objectVars
  <2>1. ASSUME NEW m \in Memories,
               \/ \E flags \in Flags : registerSharedMemory(m, flags)
               \/ releaseSharedMemory(m)
        PROVE  InputsAreKeptStep
    BY <2>1 DEF registerSharedMemory, releaseSharedMemory, InputsAreKeptStep
  <2>2. ASSUME NEW m \in Memories, NEW i \in Positions, NEW v \in Versions, Write(m, i, v)
        PROVE  InputsAreKeptStep
    <3>1. \A n \in Memories : n # m => mBuffer'[n] = mBuffer[n]
      BY <2>2 DEF Write, OperationInv, TypeOK
    <3>2. value' = value
      BY <2>2 DEF Write
    <3> QED
      BY <2>2, <3>1, <3>2 DEF InputsAreKeptStep
  <2>3. ASSUME NEW t \in Threads, updateOperation(t)
        PROVE  InputsAreKeptStep
    <3> DEFINE p == params[t][slot[t]]
               c == message[t][slot[t]]
    <3>1. pc[t] = "served" /\ slot[t] \in Slots /\ p \in Params
      BY <2>3 DEF updateOperation, OperationInv, TypeOK
    <3>2. p.kind = "smr" => p \in MemParams /\ MemMessage(p, c)
      BY <3>1, ParamKinds DEF OperationInv, MessageInv
    <3>3. p.kind = "val" => p \in ValParams /\ ValMessage(p, c)
      BY <3>1, ParamKinds DEF OperationInv, MessageInv
    <3>4. \/ mBuffer' = mBuffer
          \/ /\ p.kind = "smr"
             /\ mBuffer' = [mBuffer EXCEPT ![p.obj] =
                               updateBuffer(@, c.buffer, p.offset, c.returnSize)]
      BY <2>3 DEF updateOperation
    <3>5. value' = value \/ (p.kind = "val" /\ value' = [value EXCEPT ![p.obj] = c.x])
      BY <2>3 DEF updateOperation
    <3> HIDE DEF p, c
    <3>6. ASSUME NEW m \in Memories, memFlags[m] = "INPUT"
          PROVE  mBuffer'[m] = mBuffer[m]
      <4>1. mBuffer \in [Memories -> Buffers]
        BY DEF OperationInv, TypeOK
      <4>2. CASE p.kind = "smr" /\ p.obj = m
        BY <3>2, <3>4, <3>6, <4>1, <4>2, UpdateNothing, SizeAssumption
        DEF MemMessage, MemParams, Offsets
      <4> QED
        BY <3>4, <4>1, <4>2
    <3>7. \A w \in Values : valFlag[w] = "INPUT" => value'[w] = value[w]
      BY <3>3, <3>5 DEF ValMessage, ValParams, OperationInv, TypeOK
    <3> QED
      BY <3>6, <3>7 DEF InputsAreKeptStep
  <2>4. ASSUME UNCHANGED <<mBuffer, value>>
        PROVE  InputsAreKeptStep
    BY <2>4 DEF InputsAreKeptStep
  <2> QED
    BY <2>1, <2>2, <2>3, <2>4 DEF Next, OperationAsByteArray,
       transfer_opString_to_TEEC_Operation, TEEC_Return, TEEC_Fail, CallReturns
<1> QED
  BY <1>1, OperationInvHolds, PTL DEF Spec, InputsAreKept
=============================================================================
