----------------------------- MODULE ChatPickems -----------------------------
(***************************************************************************)
(* What the people of a chat may rely on from the bot.  A pickem is        *)
(* founded by one /new_pickem of its chat, with whoever sent it as its     *)
(* first member, and never replaced; one gets in by /join, and never out.  *)
(* A message may be answered any number of times or not at all, and only   *)
(* with what is so at that time.  Nothing is said of when.                 *)
(***************************************************************************)
EXTENDS Naturals, Sequences

CONSTANTS
  Chats,
  Messages,   \* what people may send
  None        \* no pickem in the chat

VARIABLES
  asked,      \* every message there has been
  pickems,    \* the pickem of each chat: its owner, and the message that founded it
  members,    \* who is in
  told        \* the answers given

vars == <<asked, pickems, members, told>>

Init ==
  /\ asked = <<>>
  /\ pickems = [c \in Chats |-> None]
  /\ members = [c \in Chats |-> {}]
  /\ told = {}

Ask ==
  /\ \E m \in Messages : asked' = Append(asked, m)
  /\ UNCHANGED <<pickems, members, told>>

\* The one /new_pickem that the chat's pickem goes back to.
Found(id) ==
  LET m == asked[id]
  IN /\ m.command = "new_pickem"
     /\ pickems[m.chat] = None
     /\ pickems' = [pickems EXCEPT ![m.chat] = [owner |-> m.user, by |-> id]]
     /\ members' = [members EXCEPT ![m.chat] = {m.user}]
     /\ UNCHANGED <<asked, told>>

Join(id) ==
  LET m == asked[id]
  IN /\ m.command = "join"
     /\ pickems[m.chat] # None
     /\ members' = [members EXCEPT ![m.chat] = @ \cup {m.user}]
     /\ UNCHANGED <<asked, pickems, told>>

\* The answers each command may get; "sorry" commits to nothing.
Answers(command) ==
  CASE command = "start"      -> {"hello", "sorry"}
    [] command = "new_pickem" -> {"created", "exists", "sorry"}
    [] command = "join"       -> {"joined", "none yet", "sorry"}
    [] command = "other"      -> {"hello"}
    [] OTHER                  -> {}

\* What an answer says is so now.
IsSo(id, t) ==
  LET m == asked[id]
  IN /\ t = "created" => pickems[m.chat] = [owner |-> m.user, by |-> id]
     /\ t = "exists"  => pickems[m.chat] # None
     /\ t = "joined"  => m.user \in members[m.chat]

Tell(id) ==
  /\ \E t \in Answers(asked[id].command) :
       /\ IsSo(id, t)
       /\ told' = told \cup {[update |-> id, text |-> t]}
  /\ UNCHANGED <<asked, pickems, members>>

Next ==
  \/ Ask
  \/ \E id \in 1..Len(asked) : Found(id) \/ Join(id) \/ Tell(id)

Spec == Init /\ [][Next]_vars
=============================================================================
