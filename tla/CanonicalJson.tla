---------------------------- MODULE CanonicalJson ---------------------------
(* The reader of JSON texts, pc_json_parse (src/src/core/json/canonical.cc).  *)
(*                                                                            *)
(* A text is a sequence of tokens without the white space between them; a     *)
(* string is the name of one, "bad" stands for whatever is no token.  The     *)
(* reader is recursive descent; its calls in progress are the stack "open".   *)
(* Allocation succeeds, and numbers are those that three decimals tell.       *)
(* White space matters in one place: a text that ends in a comma is one with  *)
(* nothing behind it.  With a blank there the code enters its loop once more  *)
(* and refuses the text (lines 609-615 and 660-666).                          *)
EXTENDS Integers, Sequences

CONSTANTS Strings,   \* the strings, in the order a map keeps its keys
          Others     \* the other scalars: numbers, true, false, null

VARIABLES
  text,    \* the text
  pos,     \* the next token
  open,    \* the objects and arrays being read, the innermost last
  got,     \* the value read last
  mode,    \* what comes next: a value, the head of a loop, the value for the caller
  nodes,   \* pc_json_value objects allocated and not freed
  lost     \* history: those of them that nothing points to

jvars == <<text, pos, open, got, mode, nodes, lost>>

Keys == {Strings[i] : i \in DOMAIN Strings}
NoKey == ""

ASSUME StringsAssumption ==   \* a map has a key once
  Strings \in Seq(STRING) /\ \A i, j \in DOMAIN Strings : Strings[i] = Strings[j] => i = j

ASSUME MarksAssumption ==   \* no scalar is a mark, no key or the end of the text
  (Keys \cup Others) \cap {"{", "}", "[", "]", ":", ",", NoKey, "end"} = {}

Total(numbers) ==
  LET sum[n \in 0 .. Len(numbers)] == IF n = 0 THEN 0 ELSE sum[n - 1] + numbers[n]
  IN  sum[Len(numbers)]

\* A value, and the nodes that pc_json_free gives back with it: its own and
\* those of what is in it
Scalar(token) == [kind |-> "scalar", is |-> token, size |-> 1]
Object(members) ==
  [kind |-> "{", members |-> members,
   size |-> 1 + Total([i \in DOMAIN Strings |->
                       IF Strings[i] \in DOMAIN members THEN members[Strings[i]].size ELSE 0])]
Array(items) ==
  [kind |-> "[", items |-> items, size |-> 1 + Total([i \in DOMAIN items |-> items[i].size])]
Empty(kind) == IF kind = "{" THEN Object(<<>>) ELSE Array(<<>>)
Closer(kind) == IF kind = "{" THEN "}" ELSE "]"

-----------------------------------------------------------------------------
Token(i) == IF i <= Len(text) THEN text[i] ELSE "end"
Here == Token(pos)
Top == open[Len(open)]
Outer == SubSeq(open, 1, Len(open) - 1)   \* the ones around it
Inside == open # <<>>

JsonInit(texts) ==
  /\ text \in texts /\ pos = 1 /\ open = <<>> /\ got = Array(<<>>)
  /\ mode = "value" /\ nodes = 0 /\ lost = 0

\* parse_json_value on a string, a number or a name
ParseScalar ==
  /\ mode = "value" /\ Here \in Keys \cup Others
  /\ got' = Scalar(Here) /\ pos' = pos + 1 /\ mode' = "got" /\ nodes' = nodes + 1
  /\ UNCHANGED <<text, open, lost>>

\* the start of parse_json_object and parse_json_array
ParseOpen ==
  /\ mode = "value" /\ Here \in {"{", "["}
  /\ nodes' = nodes + 1
  /\ IF Token(pos + 1) = Closer(Here)
     THEN /\ got' = Empty(Here) /\ pos' = pos + 2 /\ mode' = "got" /\ UNCHANGED open
     ELSE /\ open' = Append(open, [value |-> Empty(Here), key |-> NoKey])
          /\ pos' = pos + 1 /\ mode' = "loop" /\ UNCHANGED got
  /\ UNCHANGED <<text, lost>>

NoValue ==
  /\ mode = "value" /\ Here \notin Keys \cup Others \cup {"{", "["}
  /\ mode' = "failed"
  /\ UNCHANGED <<text, pos, open, got, nodes, lost>>

\* the loop of an object or array ends with the text
LoopEnds ==
  /\ mode = "loop" /\ Here = "end"
  /\ got' = Top.value /\ open' = Outer /\ mode' = "got"
  /\ UNCHANGED <<text, pos, nodes, lost>>

NextItem ==
  /\ mode = "loop" /\ Here # "end" /\ Top.value.kind = "["
  /\ mode' = "value"
  /\ UNCHANGED <<text, pos, open, got, nodes, lost>>

HasKey == Here \in Keys /\ Token(pos + 1) = ":"

NextMember ==
  /\ mode = "loop" /\ Top.value.kind = "{" /\ HasKey
  /\ open' = Append(Outer, [Top EXCEPT !.key = Here])
  /\ pos' = pos + 2 /\ mode' = "value" /\ nodes' = nodes + 1
  /\ UNCHANGED <<text, got, lost>>

NoMember ==
  /\ mode = "loop" /\ Here # "end" /\ Top.value.kind = "{" /\ ~HasKey
  /\ open' = Outer /\ mode' = "failed" /\ nodes' = nodes - Top.value.size
  /\ UNCHANGED <<text, pos, got, lost>>

\* the value is stored; one that a member of the same key had is forgotten
Stored(v) ==
  IF v.kind = "[" THEN Array(Append(v.items, got))
  ELSE Object([k \in DOMAIN v.members \cup {Top.key} |->
               IF k = Top.key THEN got ELSE v.members[k]])
Forgotten(v) ==
  IF v.kind = "{" /\ Top.key \in DOMAIN v.members THEN v.members[Top.key].size ELSE 0
KeyNodes(frame) == IF frame.key = NoKey THEN 0 ELSE 1

\* Fault: anything may stand between two items
ContinuesAnyhow == Here # Closer(Top.value.kind) /\ Here # "end"

Continues == Here = ","

\* after parse_json_value in a loop
Store ==
  /\ mode = "got" /\ Inside
  /\ lost' = lost + Forgotten(Top.value)
  /\ LET v == Stored(Top.value)
     IN  \/ /\ Here = Closer(v.kind)
            /\ got' = v /\ open' = Outer /\ pos' = pos + 1
            /\ nodes' = nodes - KeyNodes(Top) /\ UNCHANGED mode
         \/ /\ Continues
            /\ open' = Append(Outer, [value |-> v, key |-> NoKey]) /\ pos' = pos + 1
            /\ nodes' = nodes - KeyNodes(Top) /\ mode' = "loop" /\ UNCHANGED got
         \/ /\ Here # Closer(v.kind) /\ ~Continues
            /\ open' = Outer /\ mode' = "failed"
            /\ nodes' = nodes - KeyNodes(Top) - v.size /\ UNCHANGED <<got, pos>>
  /\ UNCHANGED text

\* Fault: the key is kept when its value cannot be read
UnwindKeyKept ==
  /\ mode = "failed" /\ Inside
  /\ nodes' = nodes - Top.value.size
  /\ open' = Outer
  /\ UNCHANGED <<text, pos, got, mode, lost>>

\* a value that could not be read takes the one around it with it
Unwind ==
  /\ mode = "failed" /\ Inside
  /\ nodes' = nodes - Top.value.size - KeyNodes(Top)
  /\ open' = Outer
  /\ UNCHANGED <<text, pos, got, mode, lost>>

\* pc_json_parse: nothing may follow the value
Accept ==
  /\ mode = "got" /\ ~Inside /\ Here = "end"
  /\ mode' = "accepted"
  /\ UNCHANGED <<text, pos, open, got, nodes, lost>>

Reject ==
  /\ ~Inside
  /\ \/ mode = "failed" /\ UNCHANGED nodes
     \/ mode = "got" /\ Here # "end" /\ nodes' = nodes - got.size
  /\ mode' = "rejected"
  /\ UNCHANGED <<text, pos, open, got, lost>>

JsonNext ==
  \/ ParseScalar \/ ParseOpen \/ NoValue \/ LoopEnds \/ NextItem \/ NextMember \/ NoMember
  \/ Store \/ Unwind \/ Accept \/ Reject

-----------------------------------------------------------------------------
(* Every node that the reader allocated is in the value it returns or on its  *)
(* way there, on every path of a failure; only a key that comes twice loses   *)
(* the value it had first.                                                    *)
NodesAccounted ==
  LET member(i) == text[i] \in Keys /\ Token(i + 1) = ":"
  IN  /\ nodes = lost + Total([i \in DOMAIN open |-> open[i].value.size + KeyNodes(open[i])])
                 + (IF mode \in {"got", "accepted"} THEN got.size ELSE 0)
      /\ lost > 0 => \E i, j \in DOMAIN text :
                       i < j /\ text[i] = text[j] /\ member(i) /\ member(j)
=============================================================================
