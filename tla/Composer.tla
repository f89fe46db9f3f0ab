------------------------------ MODULE Composer ------------------------------
(***************************************************************************)
(* The composer of a post (MomentComposer in client/src/pages/Moments.tsx; *)
(* PostComposer in Timeline.tsx is the same but for its limit and what it  *)
(* adds to the payload).  Selections of images and of a video are uploaded *)
(* side by side, each one file after the other, while the author goes on:  *)
(* what the page shows, offers and publishes depends on which kind of      *)
(* upload ended last.  The text is typed, and the audience is chosen,      *)
(* before the post is sent: both are picked at that moment.                *)
(***************************************************************************)
EXTENDS Contacts, FiniteSetsExt

CONSTANT MaxPick   \* bound on the files of one selection

ASSUME PickAssumption == MaxPick \in Nat \ {0}
\* No post is a row of the tables.
ASSUME NoPostAssumption == None \notin [by : User \cup {None}, liked : BOOLEAN, comments : {0, 1}]

VARIABLES draft,    \* the state of the open composer, or Blank
          uploads,  \* uploads of the open composer: their kind and the files left
          sending   \* posts on their way to the server: at tells whether the composer
                    \* they come from is open, its page only, or neither

composerVars == <<draft, uploads, sending>>

Blank == [open |-> FALSE, images |-> 0, video |-> FALSE, thumb |-> FALSE, mode |-> "none", submitting |-> FALSE]
ComposerInit == draft = Blank /\ uploads = {} /\ sending = {}

OpenComposer == ~draft.open /\ draft' = [Blank EXCEPT !.open = TRUE] /\ uploads' = {} /\ UNCHANGED sending
\* The uploads of a composer that is closed end without it; a post that was sent does not.
CloseComposer == draft' = Blank /\ uploads' = {}

\* The buttons: images unless a video is shown, a video unless there is one or images are shown.
OffersImages(limit) == draft.open /\ draft.mode # "video" /\ draft.images < limit
OffersVideo == draft.open /\ (draft.mode # "images" \/ draft.images = 0) /\ ~draft.video

\* handleImageSelect: the room left is that of the moment of the selection.
Room(n, limit) == IF n < limit - draft.images THEN n ELSE limit - draft.images
PickImages(n, limit) == /\ OffersImages(limit) /\ n \in 1..MaxPick
                        /\ uploads' = uploads \cup {[kind |-> "image", left |-> Room(n, limit)]}
                        /\ UNCHANGED <<draft, sending>>
\* handleVideoSelect, for a video that is not too long.
PickVideo == /\ OffersVideo
             /\ uploads' = uploads \cup {[kind |-> "video", left |-> 1]}
             /\ UNCHANGED <<draft, sending>>

\* A file is uploaded, or fails; the next one of the selection follows.
Rest(u) == (uploads \ {u}) \cup (IF u.left > 1 THEN {[u EXCEPT !.left = @ - 1]} ELSE {})
ImageUploaded(u) == /\ u.kind = "image" /\ uploads' = Rest(u)
                    /\ draft' = [draft EXCEPT !.images = @ + 1, !.mode = "images"]
                    /\ UNCHANGED sending
VideoUploaded(u) == /\ u.kind = "video" /\ uploads' = Rest(u) \cup {[kind |-> "thumb", left |-> 1]}
                    /\ draft' = [draft EXCEPT !.video = TRUE, !.mode = "video"]
                    /\ UNCHANGED sending
ThumbUploaded(u) == /\ u.kind = "thumb" /\ uploads' = Rest(u)
                    /\ draft' = [draft EXCEPT !.thumb = TRUE]
                    /\ UNCHANGED sending
UploadFails(u) == uploads' = Rest(u) /\ UNCHANGED <<draft, sending>>

\* What is shown can be removed.
RemoveImage == /\ draft.mode = "images" /\ draft.images > 0
               /\ draft' = [draft EXCEPT !.images = @ - 1, !.mode = IF draft.images <= 1 THEN "none" ELSE @]
               /\ UNCHANGED <<uploads, sending>>
RemoveVideo == /\ draft.mode = "video" /\ draft.video
               /\ draft' = [draft EXCEPT !.video = FALSE, !.thumb = FALSE, !.mode = "none"]
               /\ UNCHANGED <<uploads, sending>>

\* The payload holds the kind of media that is shown.
Payload == [images |-> IF draft.mode = "images" THEN draft.images ELSE 0,
            video |-> draft.mode = "video" /\ draft.video,
            thumb |-> draft.mode = "video" /\ draft.thumb]
\* handlePublish: a post needs a text, an image or a video, shown or not.
Publish(to, text, audience) ==
  /\ draft.open /\ ~draft.submitting
  /\ text \/ draft.images > 0 \/ draft.video
  /\ sending' = sending \cup {[to |-> to, media |-> Payload, audience |-> audience, at |-> "composer"]}
  /\ draft' = [draft EXCEPT !.submitting = TRUE]
  /\ UNCHANGED uploads
\* The server refuses too many images, and images with a video.
Acceptable(post, limit) == /\ post.media.images <= limit
                           /\ ~(post.media.images > 0 /\ post.media.video)
\* The post is published: the composer closes, the one that is open on the page by now.
Published(post) == /\ sending' = sending \ {post}
                   /\ IF post.at = "gone" THEN UNCHANGED <<draft, uploads>> ELSE CloseComposer
NotPublished(post) == /\ sending' = sending \ {post}
                      /\ draft' = [draft EXCEPT !.submitting = @ /\ post.at # "composer"]
                      /\ UNCHANGED uploads

\* The way back to the list, and what becomes of the composer when its page closes.
BackToList == draft.open /\ CloseComposer /\ sending' = {[p EXCEPT !.at = IF @ = "gone" THEN @ ELSE "page"] : p \in sending}
ComposerCloses == CloseComposer /\ sending' = {[p EXCEPT !.at = "gone"] : p \in sending}
ComposerStays == IF page' = page THEN UNCHANGED composerVars ELSE ComposerCloses

\* What happens in an open page but for publishing.
Composing(limit) == \/ /\ UNCHANGED acts
                       /\ \/ OpenComposer \/ BackToList \/ RemoveImage \/ RemoveVideo
                          \/ \E u \in uploads : ImageUploaded(u) \/ VideoUploaded(u) \/ ThumbUploaded(u)
                    \/ /\ Act
                       /\ \/ \E n \in 1..MaxPick : PickImages(n, limit)
                          \/ PickVideo
                          \/ \E u \in uploads : UploadFails(u)

-----------------------------------------------------------------------------
(* The posts of the server, in both tables.                                *)

\* A number is used once: a post that was deleted leaves it taken.
Nothing == [m \in {} |-> None]
New(u) == [by |-> u, liked |-> FALSE, comments |-> 0]
Tombstone == New(None)
Free(table, ids) == {n \in ids : table[n] = None}
Added(table, ids, u) == [table EXCEPT ![Min(Free(table, ids))] = New(u)]
There(post) == post \notin {None, Tombstone}
\* The server acts on a post if it is still there.
Acted(table, a) == IF ~There(table[a.on]) THEN table
                   ELSE CASE a.kind = "like" -> [table EXCEPT ![a.on].liked = TRUE]
                          [] a.kind = "unlike" -> [table EXCEPT ![a.on].liked = FALSE]
                          [] a.kind = "comment" -> [table EXCEPT ![a.on].comments = 1]
                          [] a.kind = "delete" -> [table EXCEPT ![a.on] = Tombstone]
                          [] a.kind = "report" -> table
=============================================================================
