------------------------------ MODULE UserPage ------------------------------
(***************************************************************************)
(* The profile of another user (client/src/pages/UserProfile.tsx): the     *)
(* privacy of the moments, the remark, reporting and blocking.  The trust  *)
(* in the identity shown there is that of IdentityVerification.  The words *)
(* of a remark are typed as it is saved: what matters is that the list of  *)
(* friends is read again.                                                  *)
(***************************************************************************)
EXTENDS Contacts

VARIABLES blocked,  \* the users the store hides
          privacy,  \* on the server: for each user, whose moments are hidden from whom
          profile,  \* the state of the open profile
          errands   \* requests of the page under way; those of a page that is closed go on

profileVars == <<blocked, privacy, profile, errands>>

Nobody == [id |-> None, their |-> FALSE, mine |-> FALSE, asked |-> {}]
ProfileInit == /\ blocked \in {{}, User \ {Me}}
               /\ privacy \in [User -> {[their |-> FALSE, mine |-> FALSE], [their |-> FALSE, mine |-> TRUE]}]
               /\ \A u, v \in User : privacy[u] = privacy[v]
               /\ profile = Nobody /\ errands = {}

OpenProfile(u) == /\ page = Elsewhere /\ page' = "user" /\ u # Me
                  /\ profile' = [Nobody EXCEPT !.id = u, !.asked = {privacy[u]}]
                  /\ Apart /\ UNCHANGED <<acts, blocked, privacy, errands>>
ProfileClose == /\ profile' = Nobody
                /\ errands' = {[e EXCEPT !.here = FALSE] : e \in errands}
                /\ UNCHANGED <<blocked, privacy>>
LeaveProfile == page = "user" /\ page' = Elsewhere /\ Act /\ ProfileClose /\ Apart
\* What the steps of the other pages do to this one.
ProfileStays == IF page' = page THEN UNCHANGED profileVars ELSE ProfileClose

\* The privacy as it was when it was asked for or as it is; it may come after a switch was used.
PrivacyArrives == /\ profile.asked # {}
                  /\ \E v \in profile.asked \cup {privacy[profile.id]} :
                       profile' = [profile EXCEPT !.their = v.their, !.mine = v.mine, !.asked = {}]
                  /\ Apart /\ UNCHANGED <<page, acts, blocked, privacy, errands>>

Errand(kind, their, mine) ==
  /\ page = "user" /\ Act
  /\ errands' = errands \cup {[kind |-> kind, on |-> profile.id, their |-> their, mine |-> mine, here |-> TRUE]}
  /\ Apart /\ UNCHANGED <<page, blocked, privacy>>
\* A switch shows its new position at once; both positions are sent.
HandleTogglePrivacy(field) ==
  /\ profile' = [profile EXCEPT ![field] = ~@]
  /\ Errand("privacy", profile'.their, profile'.mine)
SaveRemark == UNCHANGED profile /\ Errand("remark", FALSE, FALSE)
\* One report at a time.
HandleReport == /\ ~\E e \in errands : e.kind = "report" /\ e.here
                /\ UNCHANGED profile /\ Errand("report", FALSE, FALSE)
HandleBlock == profile.id \notin blocked /\ UNCHANGED profile /\ Errand("block", FALSE, FALSE)
HandleUnblock == profile.id \in blocked /\ UNCHANGED profile /\ Errand("unblock", FALSE, FALSE)

\* The answers change the store wherever the user is by now.
ErrandDone(e) == /\ errands' = errands \ {e}
                 /\ privacy' = IF e.kind = "privacy" THEN [privacy EXCEPT ![e.on] = [their |-> e.their, mine |-> e.mine]] ELSE privacy
                 /\ blocked' = CASE e.kind = "block" -> blocked \cup {e.on}
                                 [] e.kind = "unblock" -> blocked \ {e.on}
                                 [] OTHER -> blocked
                 /\ IF e.kind = "remark" THEN GetFriends(None) ELSE UNCHANGED gets
                 /\ UNCHANGED <<friendVars, club, tagged, page, acts, friends, groups, events, contacts, calls, stale, profile>>
ErrandFails(e) == /\ Act /\ errands' = errands \ {e}
                  /\ Apart /\ UNCHANGED <<page, blocked, privacy, profile>>

ProfileNext == \/ \E u \in User : OpenProfile(u)
               \/ LeaveProfile \/ PrivacyArrives
               \/ \E field \in {"their", "mine"} : HandleTogglePrivacy(field)
               \/ SaveRemark \/ HandleReport \/ HandleBlock \/ HandleUnblock
               \/ \E e \in errands : ErrandDone(e) \/ ErrandFails(e)
=============================================================================
