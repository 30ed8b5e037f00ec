---------------------------- MODULE StowMessage ----------------------------
(***************************************************************************)
(* What MQTT_callback_message makes of the text of a message: jsmn cuts it *)
(* into a bounded number of tokens, and the callback walks over them two   *)
(* at a time, taking the first for a key and the second for its value.     *)
(* (How the values it stores meet the monitor thread is StowControl.)      *)
(*                                                                         *)
(* A step is one lexeme of the text, or one pair of the walk.  The sender  *)
(* writes a JSON object; blanks, colons and commas make no token and are   *)
(* left out, and numbers stand for what atoi makes of them.  The callback  *)
(* copies the payload without its end, so after the object jsmn goes on    *)
(* reading what happens to be on the stack.                                *)
(***************************************************************************)
EXTENDS Naturals, Sequences

CONSTANTS
  Commands,     \* the keys "stow_status" and "rules_engine_stow_status"
  OtherKeys,    \* strings that are not keys of a command
  Values,       \* the numbers of a message
  MaxTokens,    \* the last argument of jsmn_parse: 10
  MaxDepth      \* bound: containers open at the same time

ASSUME MessageAssumption ==
  /\ Commands \cap OtherKeys = {}
  /\ 0 \in Values /\ Values \subseteq Nat
  /\ MaxTokens \in Nat \ {0}
  /\ MaxDepth \in Nat

VARIABLES
  pc,           \* the callback: "parse", "walk" or "done"
  tokens,       \* tokens[0], tokens[1], ... of the source, from 1
  open,         \* the types of the containers that are not closed yet
  afterKey,     \* the sender has written a key and owes its value
  index,        \* i of the walk, plus 1
  stowCmd,      \* StowCmd_WebApp and StowCmd_RulesEngine, by key
  before,       \* history: stowCmd when the message came
  meant,        \* history: stowCmd as the members of the object define it
  ended,        \* history: the sender's object is complete
  own,          \* history: the number of its tokens then, 0 before
  beyond        \* history: jsmn has read text that is not of the message

textVars    == <<open, afterKey, meant, ended, own, beyond>>
messageVars == <<pc, tokens, textVars, index, stowCmd, before>>

Strings    == Commands \cup OtherKeys
Containers == [type : {"object", "array"}, text : {""}]
StringTokens    == [type : {"string"}, text : Strings]
PrimitiveTokens == [type : {"primitive"}, text : Values]
Token == Containers \cup StringTokens \cup PrimitiveTokens

MessageInit ==
  /\ pc = "parse"
  /\ tokens = <<>> /\ open = <<>> /\ afterKey = FALSE
  /\ index = 0
  /\ stowCmd = [c \in Commands |-> 0]
  /\ before = stowCmd /\ meant = stowCmd
  /\ ended = FALSE /\ own = 0 /\ beyond = FALSE

-----------------------------------------------------------------------------
\* jsmn_parse returns an error: the callback only prints it.
Refuse == pc' = "done" /\ UNCHANGED tokens

\* jsmn_alloc_token, or JSMN_ERROR_NOMEM.
Allocate(token) ==
  IF Len(tokens) < MaxTokens
  THEN tokens' = Append(tokens, token) /\ pc' = "parse"
  ELSE Refuse

\* Where a value may be written: after a key, or as an element of an array; and
\* anything may follow the text on the stack.
ValueMayFollow ==
  \/ afterKey \/ ended
  \/ open # <<>> /\ Head(open) = "array"

KeyMayFollow == open # <<>> /\ Head(open) = "object" /\ ~afterKey

Scanning == pc = "parse" /\ UNCHANGED <<index, stowCmd, before>>

OpenContainer(type) ==
  /\ Scanning
  /\ ValueMayFollow \/ (tokens = <<>> /\ type = "object")
  /\ Len(open) < MaxDepth
  /\ Allocate([type |-> type, text |-> ""])
  /\ open' = <<type>> \o open
  /\ afterKey' = FALSE
  /\ beyond' = ended
  /\ UNCHANGED <<meant, ended, own>>

\* The innermost open token gets its end.
CloseContainer ==
  /\ Scanning
  /\ open # <<>> /\ ~afterKey
  /\ open' = Tail(open)
  /\ ended' = (ended \/ Len(open) = 1)
  /\ own' = IF ~ended /\ Len(open) = 1 THEN Len(tokens) ELSE own
  /\ UNCHANGED <<pc, tokens, afterKey, meant, beyond>>

\* A string is a key or a value.
String(s) ==
  /\ Scanning
  /\ KeyMayFollow \/ ValueMayFollow
  /\ Allocate([type |-> "string", text |-> s])
  /\ afterKey' = (KeyMayFollow /\ ~ended)
  /\ beyond' = ended
  /\ UNCHANGED <<open, meant, ended, own>>

\* A number; what it means when it is the value of a member of the object.
Primitive(v) ==
  /\ Scanning
  /\ ValueMayFollow
  /\ Allocate([type |-> "primitive", text |-> v])
  /\ LET key == tokens[Len(tokens)].text
     IN  meant' = IF Len(open) = 1 /\ afterKey /\ key \in Commands
                  THEN [meant EXCEPT ![key] = v] ELSE meant
  /\ afterKey' = FALSE
  /\ beyond' = ended
  /\ UNCHANGED <<open, ended, own>>

\* A byte that starts no token, a bracket that closes nothing, or a string
\* that does not end, on the stack after the text.
StrayByte ==
  /\ Scanning
  /\ ended
  /\ Refuse
  /\ beyond' = TRUE
  /\ UNCHANGED <<open, afterKey, meant, ended, own>>

\* Mutant: the walk begins with the token of the whole message.
EndOfTextFromFirst ==
  /\ pc = "parse" /\ ended
  /\ IF open = <<>> THEN pc' = "walk" /\ index' = 1 ELSE Refuse /\ UNCHANGED index
  /\ UNCHANGED <<tokens, textVars, stowCmd, before>>

\* The terminating NUL: JSMN_ERROR_PART when a container is open.
EndOfText ==
  /\ pc = "parse" /\ ended
  /\ IF open = <<>> THEN pc' = "walk" /\ index' = 2 ELSE Refuse /\ UNCHANGED index
  /\ UNCHANGED <<tokens, textVars, stowCmd, before>>

-----------------------------------------------------------------------------
\* tokens[i]; past the last one the array holds what the stack held.
TokensAt(i) == IF i <= Len(tokens) THEN {tokens[i]} ELSE Token

Store(key, value) ==
  IF key.type = "string" /\ value.type = "primitive" /\ key.text \in Commands
  THEN stowCmd' = [stowCmd EXCEPT ![key.text] = value.text]
  ELSE UNCHANGED stowCmd

\* Mutant: what was no value is looked at again as a key.
PairByOne ==
  /\ pc = "walk" /\ index <= Len(tokens)
  /\ \E value \in TokensAt(index + 1) :
       /\ Store(tokens[index], value)
       /\ index' = IF value.type = "primitive" THEN index + 2 ELSE index + 1
  /\ UNCHANGED <<pc, tokens, textVars, before>>

Pair ==
  /\ pc = "walk" /\ index <= Len(tokens)
  /\ \E value \in TokensAt(index + 1) : Store(tokens[index], value)
  /\ index' = index + 2
  /\ UNCHANGED <<pc, tokens, textVars, before>>

Return ==
  /\ pc = "walk" /\ index > Len(tokens)
  /\ pc' = "done"
  /\ UNCHANGED <<tokens, textVars, index, stowCmd, before>>

\* The next message; jsmn_init.
NextMessage ==
  /\ pc = "done"
  /\ pc' = "parse"
  /\ tokens' = <<>> /\ open' = <<>> /\ afterKey' = FALSE
  /\ index' = 0
  /\ before' = stowCmd /\ meant' = stowCmd
  /\ ended' = FALSE /\ own' = 0 /\ beyond' = FALSE
  /\ UNCHANGED stowCmd

Scan ==
  \/ \E type \in {"object", "array"} : OpenContainer(type)
  \/ CloseContainer
  \/ \E s \in Strings : String(s)
  \/ \E v \in Values : Primitive(v)
  \/ StrayByte
  \/ EndOfText

MessageNext == Scan \/ Pair \/ Return \/ NextMessage

MessageSpec == MessageInit /\ [][MessageNext]_messageVars

-----------------------------------------------------------------------------
MessageTypeOK ==
  /\ pc \in {"parse", "walk", "done"}
  /\ tokens \in Seq(Token) /\ Len(tokens) <= MaxTokens
  /\ open \in Seq({"object", "array"})
  /\ index \in Nat
  /\ stowCmd \in [Commands -> Values]
  /\ before \in [Commands -> Values]
  /\ meant \in [Commands -> Values]
  /\ afterKey \in BOOLEAN /\ ended \in BOOLEAN /\ beyond \in BOOLEAN
  /\ own \in Nat

FlatUpTo(n) == \A i \in 2..n : tokens[i].type \in {"string", "primitive"}
Flat == FlatUpTo(Len(tokens))

\* A flat message that is followed by a NUL is obeyed as a whole: each command
\* ends with the value of its last member, and keeps its value when it has none
\* (a string value, in particular, is never taken for a key).  The exception
\* is a message of more tokens than fit: jsmn refuses it, and nothing is obeyed.
FlatIsObeyed ==
  pc = "done" /\ Flat /\ ~beyond =>
    \/ stowCmd = meant
    \/ stowCmd = before /\ Len(tokens) = MaxTokens /\ index = 0

\* A message that jsmn refuses, early or at its end, changes nothing, not even by
\* the members that came before the error.
RefusedChangesNothing ==
  pc = "done" /\ (index = 0 \/ open # <<>>) => stowCmd = before

\* What the stack adds to the text of a flat message, and the token behind the
\* last one, never mix with the members of the message: when jsmn takes the whole,
\* a command ends as the message means it unless the leftovers name it themselves.
LeftoversStayApart ==
  pc = "done" /\ index # 0 /\ FlatUpTo(own) =>
    \A c \in Commands :
      stowCmd[c] = meant[c] \/ \E i \in (own + 1)..Len(tokens) : tokens[i] = [type |-> "string", text |-> c]
=============================================================================
