---------------------------- MODULE ExpiringStore ----------------------------
(***************************************************************************)
(* What the string keyspace promises its clients: a map of keys to values, *)
(* some with a deadline, on which every command takes effect in one step   *)
(* between its call and its reply.  There are no locks and no goroutines,  *)
(* and a key whose deadline has passed may be collected at any moment.     *)
(* Keyspace is shown to implement it.                                      *)
(***************************************************************************)
EXTENDS Integers

CONSTANTS Keys, Clients, Commands, Text, NoValue, NoExpiry, NoCommand, Ok, Error,
          IntLimit, MaxTime

VARIABLES
    store,        \* the value of each key
    expiries,     \* its deadline
    now,          \* the clock
    cmd,          \* the command each client waits for
    reply         \* the last reply it got

vars == <<store, expiries, now, cmd, reply>>

Ints == -IntLimit .. IntLimit - 1

Init == /\ store = [k \in Keys |-> NoValue]
        /\ expiries = [k \in Keys |-> NoExpiry]
        /\ now = 0
        /\ cmd = [c \in Clients |-> NoCommand]
        /\ reply = [c \in Clients |-> NoValue]

Tick == /\ now < MaxTime
        /\ now' = now + 1
        /\ UNCHANGED <<store, expiries, cmd, reply>>

Ask(c) == /\ cmd[c] = NoCommand
          /\ cmd' \in {[cmd EXCEPT ![c] = m] : m \in Commands}
          /\ reply' = [reply EXCEPT ![c] = NoValue]
          /\ UNCHANGED <<store, expiries, now>>

(***************************************************************************)
(* The key k has passed its deadline, or its value is gone but its         *)
(* deadline, set by EX, has passed.                                        *)
(***************************************************************************)
Collect(k) == /\ expiries[k] # NoExpiry
              /\ now > expiries[k]
              /\ store' = [store EXCEPT ![k] = NoValue]
              /\ expiries' = [expiries EXCEPT ![k] = NoExpiry]
              /\ UNCHANGED <<now, cmd, reply>>

(***************************************************************************)
(* The command of c, one of ops, is answered with r; it leaves its key     *)
(* with value v and deadline e.                                            *)
(***************************************************************************)
Perform(c, ops, v, e, r) ==
    LET k == cmd[c].key
    IN  /\ cmd[c] \in Commands
        /\ cmd[c].op \in ops
        /\ store' = [store EXCEPT ![k] = v]
        /\ expiries' = [expiries EXCEPT ![k] = e]
        /\ cmd' = [cmd EXCEPT ![c] = NoCommand]
        /\ reply' = [reply EXCEPT ![c] = r]
        /\ UNCHANGED now

Value(c) == store[cmd[c].key]
Deadline(c) == expiries[cmd[c].key]
HasDeadline(c) == Deadline(c) # NoExpiry

Observe(c, op, r) == Perform(c, {op}, Value(c), Deadline(c), r)

(* A value past its deadline is never returned.                            *)
Get(c) == \/ ~ (HasDeadline(c) /\ now > Deadline(c)) /\ Observe(c, "GET", Value(c))
          \/ Value(c) = NoValue /\ Observe(c, "GET", NoValue)

(* A key past its deadline exists until it is collected.                   *)
Exists(c) == \/ Value(c) # NoValue /\ Observe(c, "EXISTS", 1)
             \/ Value(c) = NoValue /\ Observe(c, "EXISTS", 0)

TTL(c) == \/ Value(c) # NoValue /\ HasDeadline(c) /\ now < Deadline(c)
                 /\ Observe(c, "TTL", Deadline(c) - now)
          \/ Value(c) # NoValue /\ ~ HasDeadline(c) /\ Observe(c, "TTL", -1)
          \/ HasDeadline(c) /\ now >= Deadline(c) /\ Observe(c, "TTL", -2)
          \/ Value(c) = NoValue /\ Observe(c, "TTL", -2)

Set(c) == \/ cmd[c].ttl > 0 /\ Perform(c, {"SET"}, cmd[c].val, now + cmd[c].ttl, Ok)
          \/ cmd[c].ttl <= 0 /\ Perform(c, {"SET"}, cmd[c].val, NoExpiry, Ok)

Del(c) == \/ Value(c) # NoValue /\ Perform(c, {"DEL"}, NoValue, NoExpiry, 1)
          \/ Value(c) = NoValue /\ Observe(c, "DEL", 0)

EX(c) == Perform(c, {"EX"}, Value(c), now + cmd[c].ttl, Ok)

PERSIST(c) ==
    \/ Value(c) # NoValue /\ HasDeadline(c)
          /\ Perform(c, {"PERSIST"}, Value(c), NoExpiry, 1)
    \/ Value(c) = NoValue /\ Observe(c, "PERSIST", 0)
    \/ ~ HasDeadline(c) /\ Observe(c, "PERSIST", 0)

Append(c) == Perform(c, {"APPEND"}, Text, Deadline(c), Ok)

(***************************************************************************)
(* Counters are integers modulo 2 * IntLimit; an absent one counts from 0. *)
(***************************************************************************)
Congruent(m, n) == \E j \in -1 .. 1 : m = n + j * (2 * IntLimit)

Counts(c, op, base, sign) ==
    \E n \in Ints, i \in Ints : /\ Congruent(i, sign * cmd[c].val)
                                /\ Congruent(n, base + i)
                                /\ Perform(c, {op}, n, Deadline(c), n)

IncrBy(c) ==
    LET both == {<<"INCRBY", 1>>, <<"DECRBY", -1>>}
    IN  \/ Value(c) = NoValue /\ \E b \in both : cmd[c].op = b[1] /\ Counts(c, b[1], 0, b[2])
        \/ Value(c) \in Ints /\ \E b \in both : cmd[c].op = b[1] /\ Counts(c, b[1], Value(c), b[2])
        \/ Value(c) = Text /\ Perform(c, {"INCRBY", "DECRBY"}, Text, Deadline(c), Error)

Serve(c) == /\ cmd[c] # NoCommand
            /\ \/ Get(c) \/ Exists(c) \/ TTL(c) \/ Set(c) \/ Del(c) \/ EX(c)
               \/ PERSIST(c) \/ Append(c) \/ IncrBy(c)

Next == \/ Tick
        \/ \E c \in Clients : Ask(c) \/ Serve(c)
        \/ \E k \in Keys : Collect(k)

Spec == Init /\ [][Next]_vars
=============================================================================
