---------------------------- MODULE MCBootstrap ----------------------------
(***************************************************************************)
(* The daemon and the CLI over two groups, two phases and two teams.  The  *)
(* opponent of the second team is not in /teams, one fixture is a final.   *)
(***************************************************************************)
EXTENDS Bootstrap

CONSTANTS A, B, semis, final, arg, bra, xyz

Fixture(stage, group, home, away) ==
  [stage |-> stage, group |-> group, home |-> home, away |-> away]

MCFixtures == <<Fixture(None, A, arg, None), Fixture(final, None, None, None),
                Fixture(None, B, xyz, bra)>>
MCLabels == <<A, B>>
MCStages == <<semis, final>>
MCCodes == <<arg, bra>>
=============================================================================
