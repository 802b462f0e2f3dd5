------------------------------- MODULE MCBot -------------------------------
(***************************************************************************)
(* One chat, two users, three updates: one creates the pickem, twice at    *)
(* the same time if need be, panics a worker or chats; the other joins.    *)
(***************************************************************************)
EXTENDS Bot

CONSTANTS c1, u1, u2

Msg(u, command) == [chat |-> c1, user |-> u, command |-> command]

MCMessages ==
  { Msg(u1, "new_pickem"), Msg(u2, "join"), Msg(u2, "start"), Msg(u1, "play"),
    Msg(u1, "other") }
=============================================================================
