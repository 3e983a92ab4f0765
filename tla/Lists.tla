-------------------------------- MODULE Lists --------------------------------
(***************************************************************************)
(* The list commands (list.go) on one key.  A list is a Go slice: a window *)
(* of an array that it may share.  RPUSH writes behind the window when the *)
(* array has room, the pops move the window, and LRANGE returns a window   *)
(* of the same array, which its client reads after the lock is released.   *)
(*                                                                         *)
(* A missing key and an empty list answer every list command alike and are *)
(* one value here.  A string is two words in memory; an element that is    *)
(* read while it is written is Torn.                                       *)
(***************************************************************************)
EXTENDS Integers, SequencesExt, RWMutex

CONSTANTS
    Clients,        \* the goroutines of the connections
    Arrays,         \* the memory: the arrays there is room for
    Elements,       \* the strings in a list
    Pushes,         \* what a command may push: sequences of elements
    Commands,       \* the commands that are sent
    MaxCapacity,    \* bound of the model: the capacity of an array
    MaxCalls,       \* bound of the model: the commands of each client
    NoArray,        \* the array of an empty slice
    Empty,          \* a slot of an array that nothing was written to
    Torn            \* a slot that is being written to

VARIABLES
    list,           \* the slice that Store holds
    memory,         \* the slots of each array; <<>> when nobody refers to it
    pc,             \* where each client is
    values,         \* the elements a client has still to push
    slice,          \* the slice a client appends to or reads
    range,          \* how LRANGE found what slice refers to
    reply,          \* what the client has read of slice
    calls           \* how many commands each client has sent

dataVars == <<list, memory>>
clientVars == <<pc, values, slice, range, reply, calls>>
vars == <<dataVars, clientVars, mutexVars>>

Names == {"RPUSH", "LPUSH", "LPOP", "RPOP", "LRANGE", "LLEN", "DEL"}
Reads == {"LRANGE", "LLEN"}

ASSUME ListsAssumption ==
    /\ Procs = Clients
    /\ Pushes \subseteq Seq(Elements) \ {<<>>}
    /\ Commands \subseteq Names
    /\ MaxCapacity \in Nat /\ MaxCalls \in Nat
    /\ NoArray \notin Arrays
    /\ Empty \notin Elements /\ Torn \notin Elements \cup {Empty}
-----------------------------------------------------------------------------
(***************************************************************************)
(* Slices.  The first slot of an array is 1; from counts those in front.   *)
(***************************************************************************)
Slice(a, from, len) == [array |-> a, from |-> from, len |-> len]
NoList == Slice(NoArray, 0, 0)
Slots(s) == IF s.array = NoArray THEN <<>> ELSE memory[s.array]
View(s) == SubSeq(Slots(s), s.from + 1, s.from + s.len)

(* Mutant: the elements that were popped from the front are forgotten.     *)
BehindUnshifted(s) == s.len + 1

(* The slot behind a slice, where the next element of an append goes.      *)
Behind(s) == s.from + s.len + 1

HasRoom(s, n) == s.from + s.len + n <= Len(Slots(s))

Content == View(list)

Init == /\ list = NoList
        /\ memory = [a \in Arrays |-> <<>>]
        /\ pc = [c \in Clients |-> "idle"]
        /\ values = [c \in Clients |-> <<>>]
        /\ slice = [c \in Clients |-> NoList]
        /\ range = [c \in Clients |-> <<>>]
        /\ reply = [c \in Clients |-> <<>>]
        /\ calls = [c \in Clients |-> 0]
        /\ MutexInit

(***************************************************************************)
(* Arrays that nobody refers to are free.  The step that takes the last    *)
(* reference away says so: what remains is what list and slices refer to.  *)
(***************************************************************************)
Collected(m, referred) == [a \in Arrays |-> IF a \in referred THEN m[a] ELSE <<>>]

Held(c) == {slice[d].array : d \in Clients \ {c}}

Free == {a \in Arrays : memory[a] = <<>>}

Goto(c, label) == pc' = [pc EXCEPT ![c] = label]
-----------------------------------------------------------------------------
CallWrite(c) ==
    /\ pc[c] = "idle" /\ calls[c] < MaxCalls
    /\ Announce(c)
    /\ \E name \in Commands \ Reads :
          /\ Goto(c, name)
          /\ IF name \in {"RPUSH", "LPUSH"}
             THEN \E vs \in Pushes : values' = [values EXCEPT ![c] = vs]
             ELSE UNCHANGED values
    /\ calls' = [calls EXCEPT ![c] = @ + 1]
    /\ UNCHANGED <<dataVars, slice, range, reply>>

CallRead(c) ==
    /\ pc[c] = "idle" /\ calls[c] < MaxCalls
    /\ RLock(c)
    /\ \E name \in Commands \cap Reads : Goto(c, name)
    /\ calls' = [calls EXCEPT ![c] = @ + 1]
    /\ UNCHANGED <<dataVars, values, slice, range, reply>>

(***************************************************************************)
(* RPUSH: append writes into the array of the list, or copies the list     *)
(* into a larger one first; the store gets the longer slice at the end.    *)
(***************************************************************************)
Rpush(c) ==
    /\ pc[c] = "RPUSH"
    /\ WriteReady(c)
    /\ Goto(c, "appending")
    /\ IF HasRoom(list, Len(values[c]))
       THEN slice' = [slice EXCEPT ![c] = list] /\ UNCHANGED memory
       ELSE \E a \in Free :
               /\ \E room \in Len(values[c])..(MaxCapacity - list.len) :
                     memory' = [memory EXCEPT ![a] = Content \o [i \in 1..room |-> Empty]]
               /\ slice' = [slice EXCEPT ![c] = Slice(a, 0, list.len)]
    /\ UNCHANGED <<list, values, range, reply, calls, mutexVars>>

StartElement(c) ==
    /\ pc[c] = "appending" /\ values[c] # <<>>
    /\ memory' = [memory EXCEPT ![slice[c].array][Behind(slice[c])] = Torn]
    /\ Goto(c, "writing")
    /\ UNCHANGED <<list, values, slice, range, reply, calls, mutexVars>>

FinishElement(c) ==
    /\ pc[c] = "writing"
    /\ memory' = [memory EXCEPT ![slice[c].array][Behind(slice[c])] = Head(values[c])]
    /\ slice' = [slice EXCEPT ![c].len = @ + 1]
    /\ values' = [values EXCEPT ![c] = Tail(@)]
    /\ Goto(c, "appending")
    /\ UNCHANGED <<list, range, reply, calls, mutexVars>>

(***************************************************************************)
(* The end of every write command: the store gets its new slice.           *)
(***************************************************************************)
Install(c, s, m) ==
    /\ list' = s
    /\ memory' = Collected(m, Held(c) \cup {s.array})
    /\ slice' = [slice EXCEPT ![c] = NoList]
    /\ Goto(c, "idle")
    /\ Unlock
    /\ UNCHANGED <<range, reply, calls>>

RpushEnd(c) == /\ pc[c] = "appending" /\ values[c] = <<>>
               /\ Install(c, slice[c], memory)
               /\ UNCHANGED values

(* LPUSH appends the list to the arguments, which are an array of its own. *)
Lpush(c) ==
    /\ pc[c] = "LPUSH"
    /\ WriteReady(c)
    /\ LET elements == values[c] \o Content
       IN \E a \in Free, room \in 0..(MaxCapacity - Len(elements)) :
             Install(c, Slice(a, 0, Len(elements)),
                     [memory EXCEPT ![a] = elements \o [i \in 1..room |-> Empty]])
    /\ values' = [values EXCEPT ![c] = <<>>]

Lpop(c) == /\ pc[c] = "LPOP"
           /\ WriteReady(c)
           /\ Install(c, IF list.len = 0 THEN list
                         ELSE Slice(list.array, list.from + 1, list.len - 1), memory)
           /\ UNCHANGED values

(* Mutant: the last element is taken whether there is one or not.          *)
RpopUnchecked(c) == /\ pc[c] = "RPOP"
                    /\ WriteReady(c)
                    /\ Install(c, Slice(list.array, list.from, list.len - 1), memory)
                    /\ UNCHANGED values

Rpop(c) == /\ pc[c] = "RPOP"
           /\ WriteReady(c)
           /\ Install(c, IF list.len = 0 THEN list
                         ELSE Slice(list.array, list.from, list.len - 1), memory)
           /\ UNCHANGED values

Del(c) == /\ pc[c] = "DEL"
          /\ WriteReady(c)
          /\ Install(c, NoList, memory)
          /\ UNCHANGED values
-----------------------------------------------------------------------------
(***************************************************************************)
(* LRANGE: negative positions count from the end, and both ends are moved  *)
(* into the list; the result is a window of the list's own array.          *)
(***************************************************************************)
FromEnd(i) == IF i < 0 THEN list.len + i ELSE i

FirstOf(start) == IF FromEnd(start) < 0 THEN 0 ELSE FromEnd(start)

(* Mutant: a position one behind the end is not moved.                     *)
LastOfUnmoved(stop) ==
    IF FromEnd(stop) > list.len THEN list.len - 1 ELSE FromEnd(stop)

LastOf(stop) == IF FromEnd(stop) >= list.len THEN list.len - 1 ELSE FromEnd(stop)

LRANGE(start, stop) ==
    IF FirstOf(start) > LastOf(stop) THEN NoList
    ELSE Slice(list.array, list.from + FirstOf(start), LastOf(stop) - FirstOf(start) + 1)

Bounds == (-list.len - 1)..(list.len + 1)

Lrange(c) ==
    /\ pc[c] = "LRANGE"
    /\ c \in active
    /\ \E start, stop \in Bounds :
          /\ slice' = [slice EXCEPT ![c] = LRANGE(start, stop)]
          /\ range' = [range EXCEPT ![c] = View(LRANGE(start, stop))]
    /\ RUnlock(c)
    /\ Goto(c, "formatting")
    /\ UNCHANGED <<dataVars, values, reply, calls>>

(* LLEN answers a number, which no later step changes.                     *)
Llen(c) == /\ pc[c] = "LLEN"
           /\ c \in active
           /\ RUnlock(c)
           /\ Goto(c, "idle")
           /\ UNCHANGED <<dataVars, values, slice, range, reply, calls>>

(***************************************************************************)
(* formatArrayResponse reads the elements one by one, without the lock.    *)
(***************************************************************************)
Format(c) ==
    /\ pc[c] = "formatting"
    /\ Len(reply[c]) < slice[c].len
    /\ reply' = [reply EXCEPT ![c] = Append(@, View(slice[c])[Len(@) + 1])]
    /\ UNCHANGED <<dataVars, pc, values, slice, range, calls, mutexVars>>

Respond(c) ==
    /\ pc[c] = "formatting"
    /\ Len(reply[c]) = slice[c].len
    /\ Goto(c, "idle")
    /\ slice' = [slice EXCEPT ![c] = NoList]
    /\ range' = [range EXCEPT ![c] = <<>>]
    /\ reply' = [reply EXCEPT ![c] = <<>>]
    /\ memory' = Collected(memory, Held(c) \cup {list.array})
    /\ UNCHANGED <<list, values, calls, mutexVars>>
-----------------------------------------------------------------------------
Next == \E c \in Clients :
            \/ CallWrite(c) \/ CallRead(c)
            \/ Rpush(c) \/ StartElement(c) \/ FinishElement(c) \/ RpushEnd(c)
            \/ Lpush(c) \/ Lpop(c) \/ Rpop(c) \/ Del(c)
            \/ Lrange(c) \/ Llen(c) \/ Format(c) \/ Respond(c)

Spec == Init /\ [][Next]_vars
-----------------------------------------------------------------------------
Slices == [array : Arrays \cup {NoArray}, from : Nat, len : Nat]

SliceOK(s) == s \in Slices /\ s.from + s.len <= Len(Slots(s))

TypeOK ==
    /\ slice \in [Clients -> Slices]
    /\ SliceOK(list) /\ \A c \in Clients : SliceOK(slice[c])
    /\ memory \in [Arrays -> Seq(Elements \cup {Empty, Torn})]
    /\ pc \in [Clients -> Names \cup {"idle", "appending", "writing", "formatting"}]
    /\ values \in [Clients -> Seq(Elements)]
    /\ range \in [Clients -> Seq(Elements)]
    /\ reply \in [Clients -> Seq(Elements \cup {Empty, Torn})]
    /\ calls \in [Clients -> Nat]
    /\ MutexTypeOK

(***************************************************************************)
(* The list is a deque: writes into a shared array never change what is in *)
(* the list, whatever was popped and copied before (list.go:21, 37, 52,    *)
(* 67), and every command takes effect in one step.                        *)
(***************************************************************************)
Promise == INSTANCE Deque WITH content <- Content
IsDeque == Promise!Spec

(***************************************************************************)
(* Why it is one.  The lock: a write command is announced from its call to *)
(* its end, a read holds the lock or queues, and nobody reads while        *)
(* elements are appended.                                                  *)
(***************************************************************************)
WriteSteps == {"RPUSH", "LPUSH", "LPOP", "RPOP", "DEL", "appending", "writing"}

LockInv ==
    \A c \in Clients :
        /\ (pc[c] \in WriteSteps) <=> (writer = c)
        /\ (pc[c] \in Reads) <=> (c \in active \cup blocked)
        /\ c \in blocked => c \notin active /\ writer # NoProc
        /\ pc[c] \in {"appending", "writing"} => active = {}

(* An array that a slice refers to is not free.                            *)
Referred == \A s \in {list} \cup {slice[c] : c \in Clients} :
                s.array # NoArray => memory[s.array] # <<>>

(* The list has no slot that was never written, and none half written.     *)
WholeContent == Content \in Seq(Elements)

(***************************************************************************)
(* A client that appends has room for all it still has to write; its next  *)
(* slot is not in the list, which starts where its slice starts if they    *)
(* share an array; and what it wrote and what is left is what was pushed.  *)
(***************************************************************************)
Appends(c) ==
    /\ slice[c].array \in Arrays
    /\ HasRoom(slice[c], Len(values[c]))
    /\ slice[c].array = list.array => /\ slice[c].from = list.from
                                      /\ list.len <= slice[c].len
    /\ \E vs \in Pushes : View(slice[c]) \o values[c] = Content \o vs

AppendInv ==
    \A c \in Clients :
        /\ pc[c] \in {"RPUSH", "LPUSH"} => values[c] \in Pushes
        /\ pc[c] \in {"appending", "writing"} => Appends(c)
        /\ pc[c] = "writing" => values[c] # <<>>

IInv == TypeOK /\ LockInv /\ Referred /\ WholeContent /\ AppendInv

(***************************************************************************)
(* LRANGE against the positions themselves: the elements that are neither  *)
(* in front of start nor behind stop, each counted from the end when it is *)
(* negative; the window fits into its array, so that the slice expression  *)
(* does not panic (list.go:81-101).                                        *)
(***************************************************************************)
RangeExact ==
    \A start, stop \in Bounds :
        LET inside == {i \in 1..list.len : FromEnd(start) < i /\ i - 1 <= FromEnd(stop)}
        IN /\ SliceOK(LRANGE(start, stop))
           /\ View(LRANGE(start, stop)) =
                 IF inside = {} THEN <<>> ELSE SubSeq(Content, Min(inside), Max(inside))

(***************************************************************************)
(* "Gets a range of elements from a list": what is sent is what the list   *)
(* held while LRANGE had the lock (list.go:101, handler.go:384).           *)
(***************************************************************************)
RepliesAreRanges == \A c \in Clients : IsPrefix(reply[c], range[c])
=============================================================================
