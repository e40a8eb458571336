------------------------------ MODULE DBObject ------------------------------
(***************************************************************************)
(* The database objects of dbobjuseraccountlib.c and dbobjusergameinfolib.c *)
(* as a Lua program uses them.  A setter stores in the userdata the pointer *)
(* that luaL_checkstring returns, which points into a string of Lua.  Lua   *)
(* does not know of that pointer: once the program itself refers to the     *)
(* string no more it may be collected, and its memory used for another one. *)
(* A field that was never set holds whatever the memory held.               *)
(***************************************************************************)
EXTENDS Naturals

CONSTANTS
  Objs,          \* the objects the program makes
  StringFields,  \* user_id, account, device, ...
  NumberFields,  \* level, exp
  Strings,       \* the contents of strings
  Addrs,         \* where Lua can keep a string
  MaxNumber,     \* bound: the numbers that are passed are 0..MaxNumber
  Nil            \* nothing: no string there, or a field that was not set

VARIABLES
  heap,      \* heap[a]: the string at a, or Nil
  held,      \* the addresses of strings the program refers to
  made,      \* the objects that exist
  pointer,   \* pointer[o][f]: the address in a field, or Nil
  number,    \* number[o][f]: the number in a field, or Nil
  assigned   \* assigned[o][f]: the string the last call of the setter passed

memory == <<heap, held>>
fields == <<made, pointer, number, assigned>>
vars == <<memory, fields>>

Init ==
  /\ heap = [a \in Addrs |-> Nil] /\ held = {}
  /\ made = {}
  /\ pointer = [o \in Objs |-> [f \in StringFields |-> Nil]]
  /\ number = [o \in Objs |-> [f \in NumberFields |-> Nil]]
  /\ assigned = [o \in Objs |-> [f \in StringFields |-> Nil]]

\* The program makes a string.
make_string(a, s) ==
  /\ heap[a] = Nil
  /\ heap' = [heap EXCEPT ![a] = s]
  /\ held' = held \cup {a}
  /\ UNCHANGED fields

\* The program gives up its last reference to the string at a.
drop(a) ==
  /\ a \in held
  /\ held' = held \ {a}
  /\ UNCHANGED <<heap, fields>>

\* The collector frees a string the program does not refer to.
collect(a) ==
  /\ a \notin held /\ heap[a] # Nil
  /\ heap' = [heap EXCEPT ![a] = Nil]
  /\ UNCHANGED <<held, fields>>

\* create_user_account, create_user_gameinfo
new(o) ==
  /\ o \notin made
  /\ made' = made \cup {o}
  /\ UNCHANGED <<memory, pointer, number, assigned>>

\* The assignment to the field of the userdata.
set_pointer(o, f, a) == [pointer EXCEPT ![o][f] = a]

\* The setters of strings.
set_string(o, f, a) ==
  /\ o \in made /\ a \in held
  /\ pointer' = set_pointer(o, f, a)
  /\ assigned' = [assigned EXCEPT ![o][f] = heap[a]]
  /\ UNCHANGED <<memory, made, number>>

\* The setters of numbers: luaL_argcheck refuses one that is not positive.
set_number(o, f, n) ==
  /\ o \in made
  /\ number' = IF n > 0 THEN [number EXCEPT ![o][f] = n] ELSE number
  /\ UNCHANGED <<memory, made, pointer, assigned>>

\* What the getter of a string field reads.
get_string(o, f) == IF pointer[o][f] = Nil THEN Nil ELSE heap[pointer[o][f]]

Next ==
  \/ \E a \in Addrs : drop(a) \/ collect(a) \/ \E s \in Strings : make_string(a, s)
  \/ \E o \in Objs :
       \/ new(o)
       \/ \E f \in StringFields, a \in Addrs : set_string(o, f, a)
       \/ \E f \in NumberFields, n \in 0..MaxNumber : set_number(o, f, n)

Spec == Init /\ [][Next]_vars

-----------------------------------------------------------------------------
\* The getters return what was set: "All the get/set function work."
\* (src/server/Src/DBObject/README.md).
GetReturnsSet ==
  \A o \in Objs, f \in StringFields :
    assigned[o][f] # Nil => get_string(o, f) = assigned[o][f]
=============================================================================
