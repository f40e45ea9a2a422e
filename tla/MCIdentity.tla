----------------------------- MODULE MCIdentity -----------------------------
(***************************************************************************)
(* Instances of the identity components for TLC: users and sessions        *)
(* (Accounts), the OAuth token endpoint (OAuthTokens), agents and API keys *)
(* (AgentRegistry) and channel membership (Channels).  The four share no   *)
(* table that their properties relate, so one run takes them one after the *)
(* other: part names the component whose steps a behaviour consists of,    *)
(* and the variables of the others keep their initial values.              *)
(***************************************************************************)
EXTENDS Accounts, OAuthTokens, AgentRegistry, Channels, TLC

CONSTANTS c1, c2

VARIABLE part

\* Two concurrent requests are interchangeable, whichever component serves
\* them.
Symmetry == Permutations({c1, c2})

MCExternalName == [x \in Externals |-> CHOOSE n \in Names : TRUE]

MCExternalEmail == [x \in Externals |-> "e"]

MCHumanName == [o \in Owners |-> "u"]

MCHumanAltName == [o \in Owners |-> "uh"]

IdentityInit ==
  /\ AccountsInit /\ OAuthInit /\ AgentsInit /\ ChannelsInit
  /\ part \in {"accounts", "oauth", "agents", "channels"}

IdentityNext ==
  /\ UNCHANGED part
  /\ \/ part = "accounts" /\ AccountsNext /\ UNCHANGED <<oaVars, agVars, chVars>>
     \/ part = "oauth" /\ OAuthNext /\ UNCHANGED <<acVars, agVars, chVars>>
     \/ part = "agents" /\ AgentsNext /\ UNCHANGED <<acVars, oaVars, chVars>>
     \/ part = "channels" /\ ChannelsNext /\ UNCHANGED <<acVars, oaVars, agVars>>

IdentitySpec ==
  IdentityInit /\ [][IdentityNext]_<<part, acVars, oaVars, agVars, chVars>>

-----------------------------------------------------------------------------
\* What each component promises (its own module states it), in the
\* behaviours that exercise it.

\* Guesses are bounded across concurrent logins, no session or identity
\* outlives its user, and names stay unique.
AccountsHold == part = "accounts" => AccountsSafe

\* However requests race at the token endpoint, every token pair in use goes
\* back to one redeemed code of the same client and user.
OAuthHolds == part = "oauth" => OAuthSafe

\* Removed agents cannot speak, and what waited for them is a dead letter of
\* their owner.
AgentsHold == part = "agents" => AgentsSafe

\* Membership of a channel comes from a join, an invitation or its creation,
\* and its lists and counts agree with it.
ChannelsHold == part = "channels" => ChannelsSafe

\* Nothing that was taken back comes back: a redeemed authorization code
\* stays consumed, a deactivated agent stays inactive.
TakenBackForGood == ConsumedForever /\ InactiveForever

=============================================================================
