------------------------------- MODULE Social -------------------------------
(***************************************************************************)
(* The social pages of one client together: contacts, a group, a profile,  *)
(* moments and the timeline, over the one store and the one address bar.   *)
(* A page that opens closes the one before it; an answer that navigates    *)
(* closes whichever page is open by then.                                  *)
(***************************************************************************)
EXTENDS GroupPage, Moments, Timeline

CONSTANT Tours   \* bound: sets of pages, one of which the user visits in a behaviour

VARIABLE tour

socialVars == <<friendVars, contactVars, page, acts, groupVars, composerVars, profileVars, momentVars, wallVars, tour>>

SocialInit == /\ ContactsInit /\ GroupInit /\ ComposerInit /\ ProfileInit /\ MomentsInit /\ TimelineInit
              /\ tour \in Tours

\* The steps of the contacts and of a group may turn any page.
SocialNext ==
  /\ \/ ContactsNext /\ GroupStays /\ ComposerStays /\ ProfileStays /\ MomentsStay /\ TimelineStays
     \/ GroupNext /\ ComposerStays /\ ProfileStays /\ MomentsStay /\ TimelineStays
     \/ ProfileNext /\ UNCHANGED <<groupVars, composerVars, momentVars, wallVars>>
     \/ MomentsNext /\ UNCHANGED <<groupVars, wallVars>>
     \/ TimelineNext /\ UNCHANGED <<groupVars, momentVars>>
  /\ page' \in tour \cup {Elsewhere}
  /\ UNCHANGED tour

SocialSpec == SocialInit /\ [][SocialNext]_socialVars

-----------------------------------------------------------------------------
\* Both feeds show what the server holds once nothing is under way, whatever was done
\* on the other pages meanwhile (Moments.tsx and Timeline.tsx).
FeedsAgree == MomentsAgree /\ TimelineAgrees
=============================================================================
