---------------------------- MODULE FilePreview ----------------------------
(***************************************************************************)
(* The preview of images on the files page: each click fetches a blob and  *)
(* makes an object URL of it, which stays in memory until it is revoked.   *)
(* Clicks overlap, their answers come in any order, the overlay is closed  *)
(* and the page left while some are under way.                             *)
(***************************************************************************)
EXTENDS Naturals

CONSTANTS
  Click,   \* clicks on a preview button; the URL a click makes bears its name
  Image,   \* the rows
  NoUrl, NoImage

ASSUME PreviewAssumption == NoUrl \notin Click /\ NoImage \notin Image

VARIABLES
  click,     \* click[k]: a preview under way, and its row
  asked,     \* previewingIdRef: the row asked for last
  kept,      \* previewUrlRef
  onScreen,  \* previewUrl, which opens the overlay
  live,      \* the object URLs made and not revoked
  mounted    \* previewMountedRef

previewVars == <<click, asked, kept, onScreen, live, mounted>>

ClickState == [pc : {"idle", "fetch", "done"}, row : Image \cup {NoImage}]

PreviewTypeOK ==
  /\ click \in [Click -> ClickState]
  /\ asked \in Image \cup {NoImage}
  /\ {kept, onScreen} \subseteq Click \cup {NoUrl}
  /\ live \subseteq Click /\ mounted \in BOOLEAN

PreviewInit ==
  /\ click = [k \in Click |-> [pc |-> "idle", row |-> NoImage]]
  /\ asked = NoImage /\ kept = NoUrl /\ onScreen = NoUrl /\ live = {} /\ mounted = TRUE

Answered(k) == click' = [click EXCEPT ![k].pc = "done"]
NoLongerAsked(k) == asked' = IF asked = click[k].row THEN NoImage ELSE asked

HandlePreview(k, i) ==
  /\ mounted /\ click[k].pc = "idle"
  /\ click' = [click EXCEPT ![k] = [pc |-> "fetch", row |-> i]]
  /\ asked' = i
  /\ UNCHANGED <<kept, onScreen, live, mounted>>

\* Faulty: the answer is shown whether or not the page is still there.
BlobArrivesAnyway(k) ==
  /\ click[k].pc = "fetch" /\ Answered(k) /\ NoLongerAsked(k)
  /\ IF asked = click[k].row
       THEN /\ live' = (live \ {kept}) \cup {k} /\ kept' = k
            /\ onScreen' = IF mounted THEN k ELSE NoUrl
       ELSE UNCHANGED <<live, kept, onScreen>>
  /\ UNCHANGED mounted

\* An answer to an older click, or after the page was left, revokes its own URL; any
\* other takes the place of the URL shown.
BlobArrives(k) ==
  /\ click[k].pc = "fetch" /\ Answered(k) /\ NoLongerAsked(k)
  /\ IF asked = click[k].row /\ mounted
       THEN live' = (live \ {kept}) \cup {k} /\ kept' = k /\ onScreen' = k
       ELSE UNCHANGED <<live, kept, onScreen>>
  /\ UNCHANGED mounted

BlobFails(k) ==
  /\ click[k].pc = "fetch" /\ Answered(k) /\ NoLongerAsked(k)
  /\ UNCHANGED <<kept, onScreen, live, mounted>>

ClosePreview ==
  /\ mounted /\ onScreen # NoUrl
  /\ asked' = NoImage /\ live' = live \ {onScreen} /\ kept' = NoUrl /\ onScreen' = NoUrl
  /\ UNCHANGED <<click, mounted>>

LeavePage ==
  /\ mounted /\ mounted' = FALSE
  /\ live' = live \ {kept} /\ kept' = NoUrl /\ onScreen' = NoUrl
  /\ UNCHANGED <<click, asked>>

PreviewNext ==
  \/ \E k \in Click :
       \/ \E i \in Image : HandlePreview(k, i)
       \/ BlobArrives(k) \/ BlobFails(k)
  \/ ClosePreview \/ LeavePage

PreviewSpec == PreviewInit /\ [][PreviewNext]_previewVars

(* Whatever the order of clicks, answers, closing and leaving, the only object URL
   still in memory is the one on the screen: none is leaked, none is shown revoked. *)
OneObjectUrl == live = {onScreen} \ {NoUrl} /\ kept = onScreen
=============================================================================
