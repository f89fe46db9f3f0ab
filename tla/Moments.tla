------------------------------ MODULE Moments -------------------------------
(***************************************************************************)
(* The moments page (client/src/pages/Moments.tsx): the list, likes,       *)
(* comments, deletions and reports, and the composer.  Each act of the     *)
(* user is a request whose answer asks for the list again; lists may       *)
(* arrive out of order or not at all, and the last one that arrived is     *)
(* kept for the next visit, also when it arrives after the page closed.    *)
(***************************************************************************)
EXTENDS Composer, UserPage

CONSTANTS MomentId, MomentImages   \* MomentImages: the limit of images, nine in the code

ASSUME MomentAssumption == MomentId \subseteq Nat /\ MomentImages \in Nat \ {0}

VARIABLES moments,  \* on the server: for each number, the moment or None
          feed,     \* the list on the page
          kept,     \* the list kept for the next visit
          fetches,  \* lists under way, in the order they were asked for
          asks,     \* likes, comments, deletions and reports under way
          behind    \* since the page opened a list was lost or overtaken, others acted, or
                    \* an act of an earlier visit was answered

momentVars == <<moments, feed, kept, fetches, asks, behind>>

\* list_moments: the moments of the user and of the users with an accepted row in either direction.
Posters == {u \in User \ {Me} : "accepted" \in {row[<<Me, u>>], row[<<u, Me>>]}} \cup {Me}
ListMoments == [m \in {k \in MomentId : There(moments[k]) /\ moments[k].by \in Posters} |-> moments[m]]
MomentsInit == /\ moments \in [MomentId -> {None} \cup {New(u) : u \in User}]
               /\ feed = Nothing /\ kept = Nothing /\ fetches = << >> /\ asks = {} /\ behind = FALSE

Fetch(here) == fetches' = Append(fetches, [seen |-> ListMoments', here |-> here])

\* The page shows what was kept, and reads the moments and the friends.
OpenMoments == /\ page = Elsewhere /\ page' = "moments"
               /\ UNCHANGED <<friendVars, club, tagged, friends, groups, events, contacts, calls, stale, profileVars>>
               /\ UNCHANGED <<acts, moments, kept, asks, composerVars>>
               /\ feed' = kept /\ behind' = FALSE
               /\ Fetch(TRUE) /\ GetFriends(None)
\* What is under way when the page closes ends without it.
MomentsClose == /\ feed' = Nothing /\ behind' = FALSE
                /\ fetches' = [i \in DOMAIN fetches |-> [fetches[i] EXCEPT !.here = FALSE]]
                /\ asks' = {[a EXCEPT !.here = FALSE] : a \in asks}
                /\ UNCHANGED <<moments, kept>>
LeaveMoments == /\ page = "moments" /\ page' = Elsewhere /\ Act
                /\ MomentsClose /\ ComposerCloses
                /\ Apart /\ UNCHANGED profileVars
\* What the steps of the other pages do to this one; a friendship changes what the server lists.
MomentsStay == IF page' # page THEN MomentsClose
               ELSE /\ behind' = (behind \/ Posters' # Posters)
                    /\ UNCHANGED <<moments, feed, kept, fetches, asks>>

\* Nothing but the moments changes.
InMoments == Apart /\ UNCHANGED <<page, profileVars>>
MomentsArrive(i) == /\ \E v \in {fetches[i].seen, ListMoments} :
                         /\ feed' = IF fetches[i].here THEN v ELSE feed
                         /\ kept' = v
                    /\ behind' = (behind \/ (fetches[i].here /\ \E j \in 1..i - 1 : fetches[j].here))
                    /\ fetches' = RemoveAt(fetches, i)
                    /\ InMoments /\ UNCHANGED <<acts, moments, asks, composerVars>>
MomentsLost(i) == /\ Act /\ fetches' = RemoveAt(fetches, i) /\ behind' = (behind \/ fetches[i].here)
                  /\ InMoments /\ UNCHANGED <<moments, feed, kept, asks, composerVars>>

\* The list without the users that are blocked, and the buttons of a moment in it.
Visible == {m \in DOMAIN feed : feed[m].by \notin blocked}
Offered(kind, m) == CASE kind \in {"like", "unlike"} -> feed[m].liked = (kind = "unlike")
                      [] kind = "delete" -> feed[m].by = Me
                      [] kind = "report" -> feed[m].by # Me
                      [] kind = "comment" -> TRUE
AskMoment(kind, m) == /\ page = "moments" /\ ~draft.open /\ m \in Visible /\ Offered(kind, m) /\ Act
                      /\ asks' = asks \cup {[kind |-> kind, on |-> m, here |-> TRUE]}
                      /\ InMoments /\ UNCHANGED <<moments, feed, kept, fetches, behind, composerVars>>
\* toggleLike, submitComment, deleteMoment and handleReportMoment.
ToggleLike(m) == AskMoment("like", m) \/ AskMoment("unlike", m)
SubmitComment(m) == AskMoment("comment", m)
DeleteMoment(m) == AskMoment("delete", m)
ReportMoment(m) == AskMoment("report", m)

\* Mutant: only a like reads the list again.
MomentAnswer_LikeOnly(a) == /\ moments' = Acted(moments, a) /\ asks' = asks \ {a} /\ InMoments
                            /\ IF a.kind = "like" THEN Fetch(a.here) ELSE UNCHANGED fetches
                            /\ behind' = (behind \/ ~a.here)
                            /\ UNCHANGED <<acts, feed, kept, composerVars>>
\* The answer asks for the list, but that to a report; only the page the act was done in shows it.
MomentAnswer(a) == /\ moments' = Acted(moments, a) /\ asks' = asks \ {a} /\ InMoments
                   /\ IF a.kind = "report" THEN UNCHANGED fetches ELSE Fetch(a.here)
                   /\ behind' = (behind \/ ~a.here)
                   /\ UNCHANGED <<acts, feed, kept, composerVars>>
\* The request is lost, or only its answer.
MomentFails(a) == /\ Act /\ asks' = asks \ {a}
                  /\ \/ UNCHANGED <<moments, behind>>
                     \/ moments' = Acted(moments, a) /\ behind' = TRUE
                  /\ InMoments /\ UNCHANGED <<feed, kept, fetches, composerVars>>

\* The composer of the page; friends may be chosen to see the moment alone, or not at all.
ComposeMoment == /\ page = "moments" /\ Composing(MomentImages)
                 /\ InMoments /\ UNCHANGED momentVars
Audience == [visibility : {"public"}, friends : {{}}]
            \cup [visibility : {"whitelist", "blacklist"}, friends : {friends}]
PublishMoment == /\ page = "moments" /\ Act
                 /\ \E text \in BOOLEAN, audience \in Audience : Publish("moments", text, audience)
                 /\ InMoments /\ UNCHANGED momentVars
MomentPublished(p) == /\ p.to = "moments" /\ Acceptable(p, MomentImages)
                      /\ Free(moments, MomentId) # {} /\ moments' = Added(moments, MomentId, Me)
                      /\ Published(p) /\ InMoments
                      /\ Fetch(p.at # "gone") /\ behind' = (behind \/ p.at = "gone")
                      /\ UNCHANGED <<acts, feed, kept, asks>>
MomentNotPublished(p) == /\ p.to = "moments"
                         /\ (IF Acceptable(p, MomentImages) THEN Act ELSE UNCHANGED acts)
                         /\ NotPublished(p)
                         /\ InMoments /\ UNCHANGED momentVars

\* Others publish and delete; the page is not told.
OthersMoments == /\ page = "moments" /\ Act /\ behind' = TRUE
                 /\ \E m \in MomentId, u \in User \ {Me} :
                      \/ Free(moments, MomentId) # {} /\ moments' = Added(moments, MomentId, u)
                      \/ There(moments[m]) /\ moments[m].by = u /\ moments' = [moments EXCEPT ![m] = Tombstone]
                 /\ InMoments /\ UNCHANGED <<feed, kept, fetches, asks, composerVars>>

MomentsNext == \/ OpenMoments \/ LeaveMoments \/ ComposeMoment \/ PublishMoment \/ OthersMoments
               \/ \E i \in DOMAIN fetches : MomentsArrive(i) \/ MomentsLost(i)
               \/ \E m \in MomentId : ToggleLike(m) \/ SubmitComment(m) \/ DeleteMoment(m) \/ ReportMoment(m)
               \/ \E a \in asks : MomentAnswer(a) \/ MomentFails(a)
               \/ \E p \in sending : MomentPublished(p) \/ MomentNotPublished(p)

-----------------------------------------------------------------------------
\* When nothing is under way, no list was lost or overtaken and nobody else acted, the
\* page shows what the server would list: every like, comment, deletion and post of
\* this visit, however they overlapped (refresh in Moments.tsx).
MomentsAgree == page = "moments" /\ asks = {} /\ fetches = << >> /\ sending = {} /\ ~behind
                => feed = ListMoments
=============================================================================
