----------------------------- MODULE OTOperation -----------------------------
(***************************************************************************)
(* The way of an operation's parameters: from the application's objects    *)
(* (OTSharedMemory, OTValue) into a message (OTFactoryMethods), through    *)
(* the guard into a TEEC_Operation (LibteeWrapper), to the TA, and back    *)
(* into the objects (OTContext.updateOperation, OTSharedMemory).           *)
(*                                                                         *)
(* Threads share the objects, as ITEEClient allows.  The service serves    *)
(* one call at a time.  An operation has a fixed number of slots; a        *)
(* shorter one is one with null parameters at its end.  Each memory has an *)
(* array of its own: one array registered twice, which ITEEClient allows   *)
(* and where an update of one memory shows in the other, is left out.      *)
(*                                                                         *)
(* A byte is a pair <<i, v>>: version v of what somebody put at position i.*)
(* That the pair stands at position i of a buffer is then a property, not  *)
(* an assumption.                                                          *)
(***************************************************************************)
EXTENDS Integers

CONSTANTS
    Threads,    \* threads that use the objects
    Memories,   \* OTSharedMemory objects
    Values,     \* OTValue objects
    Slots,      \* parameter slots of an operation: 1..n
    Size,       \* length of every shared memory
    PtrSize,    \* sizeof(int8_t*) in the native layer
    Versions,   \* versions of a byte, and values of an OTValue
    Null        \* not registered

ASSUME SizeAssumption ==
    /\ Size \in Nat /\ PtrSize \in 1..Size
    /\ Slots \subseteq Nat
    /\ Versions # {}

Positions == 0..(Size - 1)
Bytes     == Positions \X Versions
Buffers   == [Positions -> Bytes]
NoBuffer  == Null

ASSUME NullAssumption == Null \notin Buffers

Flags == {"INPUT", "OUTPUT", "INOUT"}
Output(flag) == flag \in {"OUTPUT", "INOUT"}

\* OTClient.RegisteredMemoryReference refuses an offset beyond the memory's
\* length and lets one through that equals it.
Offsets == 0..Size

\* What the application can put in a slot.
MemParams == [kind : {"smr"}, obj : Memories, offset : Offsets, flag : Flags]
ValParams == [kind : {"val"}, obj : Values]
Empty     == [kind |-> "empty"]
Params    == MemParams \cup ValParams \cup {Empty}

\* What a message carries for a slot.
Contents == [buffer : Buffers, returnSize : 0..Size]
Messages == Contents \cup [x : Versions] \cup {Empty}

ParamTypes == {"NONE", "WHOLE", "PARTIAL_INPUT", "PARTIAL_OUTPUT", "PARTIAL_INOUT",
               "VALUE_INPUT", "VALUE_OUTPUT", "VALUE_INOUT"}

VARIABLES
    memFlags,     \* OTSharedMemory.mFlag; Null before registerSharedMemory
    mBuffer,      \* OTSharedMemory.mBuffer, the application's own array
    mReturnSize,  \* OTSharedMemory.mReturnSize
    sm,           \* native TEEC_SharedMemory buffers; NoBuffer if not registered
    valFlag,      \* OTValue.mFlag
    value,        \* OTValue.mA and mB
    pc,           \* per thread: "idle", "sent", "inTEE" or "served"
    params,       \* per thread: the operation it applies
    message,      \* per thread: that operation in bytes
    paramTypes,   \* per thread: TEEC_Operation.paramTypes
    slot,         \* per thread: the next slot of updateOperation
    reported      \* history: the sizes the TEE has reported for a memory

objectVars == <<memFlags, mBuffer, mReturnSize, valFlag, value>>
threadVars == <<pc, params, message, paramTypes, slot>>
vars == <<objectVars, sm, threadVars, reported>>

TypeOK ==
    /\ memFlags \in [Memories -> Flags \cup {Null}]
    /\ mBuffer \in [Memories -> Buffers]
    /\ mReturnSize \in [Memories -> 0..Size]
    /\ sm \in [Memories -> Buffers \cup {NoBuffer}]
    /\ valFlag \in [Values -> Flags]
    /\ value \in [Values -> Versions]
    /\ pc \in [Threads -> {"idle", "sent", "inTEE", "served"}]
    /\ params \in [Threads -> [Slots -> Params]]
    /\ message \in [Threads -> [Slots -> Messages]]
    /\ paramTypes \in [Threads -> [Slots -> ParamTypes]]
    /\ slot \in [Threads -> Nat]
    /\ reported \in [Memories -> SUBSET (0..Size)]

NoParams == [k \in Slots |-> Empty]
NoTypes  == [k \in Slots |-> "NONE"]

Init ==
    /\ memFlags = [m \in Memories |-> Null]
    /\ \E v \in Versions :
        /\ mBuffer = [m \in Memories |-> [i \in Positions |-> <<i, v>>]]
        /\ value = [w \in Values |-> v]
    /\ mReturnSize = [m \in Memories |-> 0]
    /\ sm = [m \in Memories |-> NoBuffer]
    /\ valFlag \in [Values -> Flags]
    /\ pc = [t \in Threads |-> "idle"]
    /\ params = [t \in Threads |-> NoParams]
    /\ message = [t \in Threads |-> NoParams]
    /\ paramTypes = [t \in Threads |-> NoTypes]
    /\ slot = [t \in Threads |-> 1]
    /\ reported = [m \in Memories |-> {}]
-----------------------------------------------------------------------------
(* The application's memory.                                                 *)

\* The static methods of NativeLibtee exclude each other, and so do the methods
\* of the service's binder that call them.
ServiceFree == \A t \in Threads : pc[t] # "inTEE"

\* The native layer gets a copy of the buffer.
registerSharedMemory(m, flags) ==
    /\ memFlags[m] = Null
    /\ ServiceFree
    /\ memFlags' = [memFlags EXCEPT ![m] = flags]
    /\ sm' = [sm EXCEPT ![m] = mBuffer[m]]
    /\ UNCHANGED <<mBuffer, mReturnSize, valFlag, value, threadVars, reported>>

\* The object stays in the hands of the application.
releaseSharedMemory(m) ==
    /\ sm[m] # NoBuffer
    /\ ServiceFree
    /\ sm' = [sm EXCEPT ![m] = NoBuffer]
    /\ UNCHANGED <<objectVars, threadVars, reported>>

\* asByteArray hands out the array itself, and the application writes to it.
Write(m, i, v) ==
    /\ mBuffer' = [mBuffer EXCEPT ![m][i] = <<i, v>>]
    /\ UNCHANGED <<memFlags, mReturnSize, valFlag, value, sm, threadVars, reported>>
-----------------------------------------------------------------------------
(* From the objects to the TA.                                               *)

\* The message for one parameter.
ParamAsMessage(p) ==
    CASE p.kind = "smr" -> [buffer |-> mBuffer[p.obj], returnSize |-> mReturnSize[p.obj]]
      [] p.kind = "val" -> [x |-> value[p.obj]]
      [] OTHER          -> Empty

OperationAsByteArray(t, ps) ==
    /\ pc[t] = "idle"
    /\ \A k \in Slots : ps[k].kind = "smr" => memFlags[ps[k].obj] # Null
    /\ pc' = [pc EXCEPT ![t] = "sent"]
    /\ params' = [params EXCEPT ![t] = ps]
    /\ message' = [message EXCEPT ![t] = [k \in Slots |-> ParamAsMessage(ps[k])]]
    /\ UNCHANGED <<objectVars, sm, paramTypes, slot, reported>>

\* The type of a parameter: a memory reference without an offset is one to the
\* whole memory, whatever its flag.
ParamType(p) ==
    CASE p.kind = "val" -> (CASE valFlag[p.obj] = "INPUT"  -> "VALUE_INPUT"
                              [] valFlag[p.obj] = "OUTPUT" -> "VALUE_OUTPUT"
                              [] OTHER                     -> "VALUE_INOUT")
      [] p.kind = "smr" /\ p.offset = 0 -> "WHOLE"
      [] p.kind = "smr" /\ p.offset # 0 ->
            (CASE p.flag = "INPUT"  -> "PARTIAL_INPUT"
               [] p.flag = "OUTPUT" -> "PARTIAL_OUTPUT"
               [] OTHER             -> "PARTIAL_INOUT")
      [] OTHER -> "NONE"

\* Does the conversion come to slot k of thread t and beyond?  It gives up at
\* the first memory that the native layer does not know.
Known(t, k) ==
    \A j \in Slots : j <= k /\ params[t][j].kind = "smr" => sm[params[t][j].obj] # NoBuffer

\* Slots of thread t whose memory m gets bytes of the message.
CopiedFrom(t, m) ==
    {k \in Slots : params[t][k].kind = "smr" /\ params[t][k].obj = m /\ Known(t, k)}

\* memcpy(sm->buffer, smBuffer, sizeof(smBuffer)): as many bytes as a pointer has.
memcpy(old, new) == [i \in Positions |-> IF i < PtrSize THEN new[i] ELSE old[i]]

\* The conversion in the native layer.  Its result is not looked at: after a
\* failure the operation goes to the TA without parameters.
transfer_opString_to_TEEC_Operation(t) ==
    /\ pc[t] = "sent"
    /\ ServiceFree
    /\ pc' = [pc EXCEPT ![t] = "inTEE"]
    /\ sm' = [m \in Memories |->
                IF CopiedFrom(t, m) = {} THEN sm[m]
                ELSE memcpy(sm[m], message[t][CHOOSE k \in CopiedFrom(t, m) : TRUE].buffer)]
    /\ paramTypes' = [paramTypes EXCEPT ![t] =
                        IF \A k \in Slots : Known(t, k)
                        THEN [k \in Slots |-> ParamType(params[t][k])]
                        ELSE NoTypes]
    /\ UNCHANGED <<objectVars, params, message, slot, reported>>
-----------------------------------------------------------------------------
(* The TEE, and the way back.                                                *)

\* Memories the TA may write to: the direction of a whole memory is that of its
\* registration.
Writable(t) ==
    {m \in Memories : \E k \in Slots :
        /\ params[t][k].kind = "smr" /\ params[t][k].obj = m
        /\ Output(memFlags[m])
        /\ paramTypes[t][k] \in {"WHOLE", "PARTIAL_OUTPUT", "PARTIAL_INOUT"}}

\* Mutation: the direction of the memory is not looked at.
SyncedWhateverFlag(t, k) ==
    paramTypes[t][k] \in {"WHOLE", "PARTIAL_OUTPUT", "PARTIAL_INOUT"}

\* Does transfer_TEEC_Operation_to_op send the memory of slot k back?
SyncedBack(t, k) ==
    /\ paramTypes[t][k] \in {"WHOLE", "PARTIAL_OUTPUT", "PARTIAL_INOUT"}
    /\ Output(memFlags[params[t][k].obj])

OutputValue(t, k) == paramTypes[t][k] \in {"VALUE_OUTPUT", "VALUE_INOUT"}

\* The TA has written version v to the positions in w of the memories it may
\* write to.
WrittenByTA(t, w, v) ==
    [m \in Memories |->
        IF m \in Writable(t)
        THEN [i \in Positions |-> IF i \in w THEN <<i, v>> ELSE sm[m][i]]
        ELSE sm[m]]

\* The TA answers with the sizes given by size and the values given by x for its
\* outputs.  What is not sent back stays in the message as the client sent it.
TEEC_Return(t, w, v, size, x) ==
    /\ pc[t] = "inTEE"
    /\ pc' = [pc EXCEPT ![t] = "served"]
    /\ sm' = WrittenByTA(t, w, v)
    /\ message' = [message EXCEPT ![t] = [k \in Slots |->
                     CASE SyncedBack(t, k) ->
                            [buffer |-> sm'[params[t][k].obj], returnSize |-> size[k]]
                       [] OutputValue(t, k) -> [x |-> x[k]]
                       [] OTHER -> message[t][k]]]
    /\ reported' = [m \in Memories |-> reported[m] \cup
                      {size[k] : k \in {j \in Slots : SyncedBack(t, j)
                                                      /\ params[t][j].obj = m}}]
    /\ paramTypes' = [paramTypes EXCEPT ![t] = NoTypes]
    /\ UNCHANGED <<objectVars, params, slot>>

Finished(t) ==
    /\ pc' = [pc EXCEPT ![t] = "idle"]
    /\ params' = [params EXCEPT ![t] = NoParams]
    /\ message' = [message EXCEPT ![t] = NoParams]
    /\ paramTypes' = [paramTypes EXCEPT ![t] = NoTypes]
    /\ slot' = [slot EXCEPT ![t] = 1]

\* A call that failed gives nothing back to the objects, whatever the TA did
\* before it failed.
TEEC_Fail(t, w, v) ==
    /\ pc[t] = "inTEE"
    /\ sm' = WrittenByTA(t, w, v)
    /\ Finished(t)
    /\ UNCHANGED <<objectVars, reported>>

\* Mutation: the returned buffer is read from its beginning.
bufferFromStart(old, new, offset, n) ==
    [i \in Positions |-> IF i \in offset..(offset + n - 1) THEN new[i - offset] ELSE old[i]]

\* OTSharedMemory.updateBuffer
updateBuffer(old, new, offset, n) ==
    [i \in Positions |-> IF i \in offset..(offset + n - 1) THEN new[i] ELSE old[i]]

\* Mutation: the size that came back is taken for the new end of the data.
sizeFromStart(offset, n) == IF offset + n <= Size THEN offset + n ELSE n

\* Mutation: one byte too many is counted.
sizeOneMore(offset, n) == n + 1

\* The return size the memory keeps.
returnedSize(offset, n) == n

\* updateOperation, one slot at a time; a buffer that does not fit ends the call
\* with an exception.
updateOperation(t) ==
    /\ pc[t] = "served" /\ slot[t] \in Slots
    /\ LET p == params[t][slot[t]]
           c == message[t][slot[t]]
       IN  IF p.kind = "smr" /\ p.offset + c.returnSize > Size
           THEN Finished(t) /\ UNCHANGED objectVars
           ELSE /\ slot' = [slot EXCEPT ![t] = @ + 1]
                /\ IF p.kind = "smr"
                   THEN /\ mBuffer' = [mBuffer EXCEPT ![p.obj] =
                              updateBuffer(@, c.buffer, p.offset, c.returnSize)]
                        /\ mReturnSize' = [mReturnSize EXCEPT ![p.obj] =
                              returnedSize(p.offset, c.returnSize)]
                   ELSE UNCHANGED <<mBuffer, mReturnSize>>
                /\ value' = IF p.kind = "val" THEN [value EXCEPT ![p.obj] = c.x] ELSE value
                /\ UNCHANGED <<memFlags, valFlag, pc, params, message, paramTypes>>
    /\ UNCHANGED <<sm, reported>>

CallReturns(t) ==
    /\ pc[t] = "served" /\ slot[t] \notin Slots
    /\ Finished(t)
    /\ UNCHANGED <<objectVars, sm, reported>>
-----------------------------------------------------------------------------
Next ==
    \/ \E m \in Memories : \/ \E flags \in Flags : registerSharedMemory(m, flags)
                           \/ releaseSharedMemory(m)
                           \/ \E i \in Positions, v \in Versions : Write(m, i, v)
    \/ \E t \in Threads :
        \/ \E ps \in [Slots -> Params] : OperationAsByteArray(t, ps)
        \/ transfer_opString_to_TEEC_Operation(t)
        \/ \E w \in SUBSET Positions, v \in Versions :
              \/ \E size \in [Slots -> 0..Size], x \in [Slots -> Versions] :
                    TEEC_Return(t, w, v, size, x)
              \/ TEEC_Fail(t, w, v)
        \/ updateOperation(t)
        \/ CallReturns(t)

Spec == Init /\ [][Next]_vars
-----------------------------------------------------------------------------
(* Properties.                                                               *)

InPlace(b) == \A i \in Positions : b[i][1] = i

\* Whatever threads, offsets, directions and partial updates there were, a byte
\* never changes its place: what stands at a position of the application's array
\* or of the native buffer was put at that very position by the application or
\* the TA (updateBuffer, memcpy, transfer_TEEC_Operation_to_op).
BytesKeepPosition ==
    \A m \in Memories : InPlace(mBuffer[m]) /\ (sm[m] # NoBuffer => InPlace(sm[m]))

\* A return size the application can read was reported by the TEE for this
\* memory, although calls that return nothing send the old size there and back,
\* from several threads (OperationAsByteArray line 165, updateBuffer line 89).
ReturnSizesAreReported ==
    \A m \in Memories : mReturnSize[m] \in {0} \cup reported[m]

\* A memory that is not for output is never changed by a call, and neither is an
\* input value: only the application writes to them.
InputsAreKeptStep ==
    /\ \A m \in Memories :
          memFlags[m] = "INPUT" /\ mBuffer'[m] # mBuffer[m]
              => \E i \in Positions, v \in Versions : Write(m, i, v)
    /\ \A w \in Values : valFlag[w] = "INPUT" => value'[w] = value[w]

\* No call changes an input memory or an input value of the application
\* (transfer_TEEC_Operation_to_op lines 580-621, updateOperation).
InputsAreKept == [][InputsAreKeptStep]_vars
-----------------------------------------------------------------------------
(* What the documentation promises and the code does not keep.               *)

\* "any modification on this buffer will be synced to the TEE/TA during each
\* function call from the CA to the TEE" (ITEEClient.java:329-330): the TA finds
\* the bytes that were sent with the call.
InputReachesTA ==
    \A t \in Threads, k \in Slots :
        pc[t] = "inTEE" /\ params[t][k].kind = "smr" /\ paramTypes[t][k] # "NONE"
                        /\ memFlags[params[t][k].obj] = "INPUT"
            => sm[params[t][k].obj] = message[t][k].buffer
=============================================================================
