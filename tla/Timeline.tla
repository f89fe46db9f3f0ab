------------------------------ MODULE Timeline ------------------------------
(***************************************************************************)
(* The timeline (client/src/pages/Timeline.tsx): the list of posts, the    *)
(* page of one post and the composer.  A post is read when its page opens  *)
(* and after each act on it, the list when the user comes back to it; the  *)
(* last answers that arrived are kept for the next time.  The picture of a *)
(* post that is shown large, and whether a comment hides its author, are   *)
(* left out.                                                               *)
(***************************************************************************)
EXTENDS Composer, UserPage

CONSTANTS PostId, PostImages   \* PostImages: the limit of images, fifty in the code

ASSUME PostAssumption == PostId \subseteq Nat \ {0} /\ PostImages \in Nat \ {0}

VARIABLES posts,   \* on the server: for each number, the post or None
          wall,    \* the state of the open page: its list, the post that is open and what is shown of it
          saved,   \* the list and the posts kept for the next time
          loads,   \* GETs under way, in the order they were sent: of one post, or of the list (0)
          deeds,   \* likes, comments, deletions and reports under way
          missed   \* since the page opened a GET was lost or overtaken, others acted, or an act was
                   \* answered after its page closed

wallVars == <<posts, wall, saved, loads, deeds, missed>>

Posts == [p \in {k \in PostId : There(posts[k])} |-> posts[p]]
Post(p) == IF p # 0 /\ There(posts[p]) THEN posts[p] ELSE None
NoWall == [list |-> Nothing, open |-> 0, post |-> None]
TimelineInit == /\ posts \in [PostId -> {None} \cup {New(u) : u \in User}]
                /\ wall = NoWall /\ saved = [list |-> Nothing, post |-> [p \in PostId |-> None]]
                /\ loads = << >> /\ deeds = {} /\ missed = FALSE

\* Nothing but the timeline changes.
InTimeline == Apart /\ UNCHANGED <<page, profileVars>>
Load(pending, p, here) ==
  loads' = Append(pending, [of |-> p, list |-> Posts', post |-> Post(p)', here |-> here])
\* The requests of a page of a post that closes.
Left(pending) == [i \in DOMAIN pending |-> [pending[i] EXCEPT !.here = @ /\ pending[i].of = 0]]
Unmounted(pending) == {[d EXCEPT !.at = IF @ = "post" THEN "page" ELSE @] : d \in pending}

OpenTimeline == /\ page = Elsewhere /\ page' = "timeline"
                /\ UNCHANGED <<acts, posts, saved, deeds, composerVars, profileVars>> /\ Apart
                /\ wall' = [NoWall EXCEPT !.list = saved.list] /\ missed' = FALSE
                /\ Load(loads, 0, TRUE)
TimelineClose == /\ wall' = NoWall /\ missed' = FALSE
                 /\ loads' = [i \in DOMAIN loads |-> [loads[i] EXCEPT !.here = FALSE]]
                 /\ deeds' = {[d EXCEPT !.at = "gone"] : d \in deeds}
                 /\ UNCHANGED <<posts, saved>>
LeaveTimeline == /\ page = "timeline" /\ page' = Elsewhere /\ Act
                 /\ TimelineClose /\ ComposerCloses
                 /\ Apart /\ UNCHANGED profileVars
TimelineStays == IF page' = page THEN UNCHANGED wallVars ELSE TimelineClose

\* A post of the list that is not hidden opens with what was kept of it.
OnWall == page = "timeline" /\ ~draft.open
OpenPost(p) == /\ OnWall /\ wall.open = 0 /\ p \in DOMAIN wall.list /\ wall.list[p].by \notin blocked
               /\ UNCHANGED <<acts, posts, saved, deeds, missed, composerVars>> /\ InTimeline
               /\ wall' = [wall EXCEPT !.open = p, !.post = saved.post[p]]
               /\ Load(loads, p, TRUE)
ToList == /\ wall' = [wall EXCEPT !.open = 0, !.post = None]
          /\ Load(Left(loads), 0, TRUE)
\* Only a post that is shown has a way back to the list.
OnPost == OnWall /\ wall.post # None
BackToPosts == /\ OnPost /\ Act
               /\ UNCHANGED <<posts, saved, composerVars>> /\ InTimeline
               /\ ToList /\ deeds' = Unmounted(deeds) /\ missed' = (missed \/ deeds # {})

Arrives(i) == LET l == loads[i] IN
  /\ \E now \in BOOLEAN :
       LET list == IF now THEN Posts ELSE l.list
           post == IF now THEN Post(l.of) ELSE l.post
       IN IF l.of = 0
          THEN /\ saved' = [saved EXCEPT !.list = list]
               /\ wall' = IF l.here THEN [wall EXCEPT !.list = list] ELSE wall
          \* a post that is not there is refused, and what is shown stays
          ELSE /\ saved' = IF post = None THEN saved ELSE [saved EXCEPT !.post[l.of] = post]
               /\ wall' = IF post = None \/ ~l.here THEN wall ELSE [wall EXCEPT !.post = post]
  /\ missed' = (missed \/ (l.here /\ \E j \in 1..i - 1 : loads[j].here /\ loads[j].of = l.of))
  /\ loads' = RemoveAt(loads, i)
  /\ InTimeline /\ UNCHANGED <<acts, posts, deeds, composerVars>>
LoadFails(i) == /\ Act /\ loads' = RemoveAt(loads, i) /\ missed' = (missed \/ loads[i].here)
                /\ InTimeline /\ UNCHANGED <<posts, wall, saved, deeds, composerVars>>

\* The buttons of the post.
Deed(kind) == /\ OnPost /\ Act
              /\ deeds' = deeds \cup {[kind |-> kind, on |-> wall.open, at |-> "post"]}
              /\ InTimeline /\ UNCHANGED <<posts, wall, saved, loads, missed, composerVars>>
LikePost == OnPost /\ Deed(IF wall.post.liked THEN "unlike" ELSE "like")
CommentPost == Deed("comment")
DeletePost == OnPost /\ wall.post.by = Me /\ Deed("delete")
\* One report at a time.
ReportPost == /\ OnPost /\ wall.post.by # Me /\ ~\E d \in deeds : d.kind = "report" /\ d.at = "post"
              /\ Deed("report")

\* A deletion goes back to the list from whichever post is open by now; a like or a comment
\* shows what was kept of the post and reads it again, for the page it came from.
DeedDone(d) == /\ posts' = Acted(posts, d)
               /\ CASE d.kind = "report" -> UNCHANGED <<wall, loads>> /\ deeds' = deeds \ {d}
                    [] d.kind = "delete" /\ d.at # "gone" -> ToList /\ deeds' = Unmounted(deeds \ {d})
                    [] d.kind = "delete" /\ d.at = "gone" -> UNCHANGED wall /\ Load(loads, 0, FALSE) /\ deeds' = deeds \ {d}
                    [] OTHER -> /\ wall' = IF d.at = "post" THEN [wall EXCEPT !.post = saved.post[d.on]] ELSE wall
                                /\ Load(loads, d.on, d.at = "post") /\ deeds' = deeds \ {d}
               /\ missed' = (missed \/ d.at # "post")
               /\ InTimeline /\ UNCHANGED <<acts, saved, composerVars>>
DeedFails(d) == /\ Act /\ deeds' = deeds \ {d}
                /\ \/ UNCHANGED <<posts, missed>>
                   \/ posts' = Acted(posts, d) /\ missed' = TRUE
                /\ InTimeline /\ UNCHANGED <<wall, saved, loads, composerVars>>

\* The composer; a post may hide its author.
ComposePost == /\ page = "timeline" /\ wall.open = 0 /\ Composing(PostImages)
               /\ InTimeline /\ UNCHANGED wallVars
PublishPost == /\ page = "timeline" /\ Act
               /\ \E text \in BOOLEAN, author \in {"public", "anonymous"} :
                    Publish("timeline", text, [visibility |-> author, friends |-> {}])
               /\ InTimeline /\ UNCHANGED wallVars
PostPublished(p) == /\ p.to = "timeline" /\ Acceptable(p, PostImages)
                    /\ Free(posts, PostId) # {} /\ posts' = Added(posts, PostId, Me)
                    /\ Published(p) /\ InTimeline
                    /\ Load(loads, 0, p.at # "gone") /\ missed' = (missed \/ p.at = "gone")
                    /\ UNCHANGED <<acts, wall, saved, deeds>>
PostNotPublished(p) == /\ p.to = "timeline"
                       /\ (IF Acceptable(p, PostImages) THEN Act ELSE UNCHANGED acts)
                       /\ NotPublished(p)
                       /\ InTimeline /\ UNCHANGED wallVars

\* Others publish and delete; the page is not told.
OthersPost == /\ page = "timeline" /\ Act /\ missed' = TRUE
              /\ \E p \in PostId, u \in User \ {Me} :
                   \/ Free(posts, PostId) # {} /\ posts' = Added(posts, PostId, u)
                   \/ There(posts[p]) /\ posts[p].by = u /\ posts' = [posts EXCEPT ![p] = Tombstone]
              /\ InTimeline /\ UNCHANGED <<wall, saved, loads, deeds, composerVars>>

TimelineNext == \/ OpenTimeline \/ LeaveTimeline \/ BackToPosts \/ OthersPost
                \/ \E p \in PostId : OpenPost(p)
                \/ \E i \in DOMAIN loads : Arrives(i) \/ LoadFails(i)
                \/ LikePost \/ CommentPost \/ DeletePost \/ ReportPost
                \/ \E d \in deeds : DeedDone(d) \/ DeedFails(d)
                \/ ComposePost \/ PublishPost
                \/ \E p \in sending : PostPublished(p) \/ PostNotPublished(p)

-----------------------------------------------------------------------------
\* When nothing is under way and nothing was missed, the page shows what the server
\* holds: the post that is open, unless it was deleted, after each like and comment, and the list after the
\* way back or a deletion (loadPosts and loadPost in Timeline.tsx).
TimelineAgrees ==
  page = "timeline" /\ deeds = {} /\ loads = << >> /\ sending = {} /\ ~missed
  => IF wall.open = 0 THEN wall.list = Posts ELSE posts[wall.open] \in {Tombstone, wall.post}
=============================================================================
