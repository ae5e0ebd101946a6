------------------------------- MODULE Portal -------------------------------
(***************************************************************************)
(* What the public gallery answers (backend/apps/events/views.py): the     *)
(* page of an event, the page of a reserved link, its thumbnail and its    *)
(* bytes.  Each answer reads rows and files and changes neither; the log   *)
(* of accesses is left out.                                                *)
(*                                                                         *)
(* A destroyed event leaves openEvents.  hidden holds the events that are  *)
(* not shown for another reason: public access was switched off, or the    *)
(* retention of the plan has passed (module OperatorPlan says when).       *)
(***************************************************************************)
EXTENDS VideoPipeline

EventIsPublic(e, hidden) == e \in openEvents \ hidden

\* reservation.video, the reverse of the one-to-one key of the video.
VideosOf(t) == {v \in Videos : video[v].status # "NONE" /\ video[v].req.token = t}

\* The videos the page of an event lists.
PublicEvent(e, hidden) ==
    {v \in Videos : /\ EventIsPublic(e, hidden)
                    /\ video[v].status = "READY"
                    /\ video[v].req.event = e}

\* The page behind a QR code.
PublicVideo(t, hidden) ==
    IF ~EventIsPublic(EventOf[t], hidden) \/ token[t].status = "EXPIRED"
      THEN "unavailable"
      ELSE IF \E v \in VideosOf(t) : video[v].status = "READY"
             THEN "video"
             ELSE "pending"

\* The thumbnail and the bytes do not ask for the status of the token.
Served(t, hidden) ==
    {v \in VideosOf(t) : EventIsPublic(EventOf[t], hidden) /\ video[v].status = "READY"}

\* The file that is sent, if one is.
PublicThumbnail(t, hidden) ==
    {thumbFile[v] : v \in {u \in Served(t, hidden) :
                              thumbnail[u] /\ thumbFile[u] # NoFile}}

VideoBytes(t, hidden) ==
    {videoFile[v] : v \in {u \in Served(t, hidden) :
                              video[u].stored /\ videoFile[u] # NoFile}}
=============================================================================
