---------------------- MODULE CampaignLifecycleProperties ----------------------
(***************************************************************************)
(* What holds of the life of a campaign.                                   *)
(***************************************************************************)
EXTENDS CampaignLifecycle

\* The open play session is the campaign's current one, and there is none in a campaign
\* that is archived or gone; nor is a campaign archived while an encounter is active.
\* Start, end, archive, deletion and restoration each write the two documents apart.
SittingFollowsCampaign ==
    /\ \A p \in Sittings : playSessions[p] = "active" <=> campaign.sitting = p
    /\ campaign.state # "open" => NoOpenRuntime

\* A campaign holds the effect of no lifecycle command whose receipt it has lost, so a
\* retry is answered and not executed again: not after a deletion that dropped receipts,
\* nor after a restoration that brought an older state of the campaign back.
EffectsKeepReceipts == \A k \in campaign.done : Committed(k)

\* An invitation makes at most one member, and none once it is revoked.
InvitationsSpentOnce ==
    \A i \in Invitations :
        joins[i] = IF invitations[i].state = "accepted" THEN 1 ELSE 0

\* Whoever is no member has no active character, unless it was being assigned while
\* the account was removed: the assignment only reads the campaign, so neither
\* transaction sees the other.
CharactersBelongToMembers ==
    \A a \in Accounts :
        "active" \in instances[a] => IsMember(a) \/ a \in overlapped
=============================================================================
