------------------------------ MODULE MCAccess ------------------------------
(***************************************************************************)
(* What is let in once: the tokens of the recovery access, for one widget  *)
(* whose second task races the operator of the page the first one left     *)
(* open, and the uses of an invite.  The two share no state: a behaviour   *)
(* picks one of them and the other stays in its initial state.             *)
(***************************************************************************)
EXTENDS BrowserRecovery, Naturals

CONSTANTS w1, Registrations, Challenges, MaxUses, FailLimit

\* An invite is created with a number of uses (createInvite).
ASSUME UsesAssumption == MaxUses \in Nat

AskedFor == [i \in Requests |-> w1]
WidgetOf == [t \in Tasks |-> w1]

VARIABLES part, invite, expired, challenges, accounts, script, pc, cookie, seen

invitesVars == <<invite, expired, challenges, accounts, script, pc, cookie, seen>>

Invites == INSTANCE AuthInvites WITH Requests <- Registrations

PartInit ==
  /\ part \in {"recovery", "invites"}
  /\ Init /\ Invites!Init
  /\ part = "invites" => hung = {}

PartNext ==
  \/ part = "recovery" /\ Next /\ UNCHANGED <<part, invitesVars>>
  \/ part = "invites" /\ Invites!Next /\ UNCHANGED <<part, vars>>

PartSpec == PartInit /\ [][PartNext]_<<part, vars, invitesVars>>

\* The invite's counts are exact and bound what it admits (AuthInvites).
CountsAreExact == Invites!CountsAreExact
=============================================================================
