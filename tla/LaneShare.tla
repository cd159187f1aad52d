------------------------------ MODULE LaneShare ------------------------------
(***************************************************************************)
(* How much media can pass a waiting bulk frame.  A history variable counts *)
(* the media bytes the scheduler has taken since the present head of the   *)
(* bulk queue became its head; the round robin of LaneScheduler bounds it. *)
(***************************************************************************)
EXTENDS LaneScheduler

VARIABLE mediaServed

shareVars == <<vars, mediaServed>>

ShareInit == Init /\ mediaServed = 0

BulkHeadStays ==
    /\ queues[Bulk] # <<>> /\ queues'[Bulk] # <<>>
    /\ Head(queues'[Bulk]) = Head(queues[Bulk])

MediaTaken == pump # "writing" /\ pump' = "writing" /\ active'.class \in Media

Count ==
    mediaServed' = IF ~BulkHeadStays THEN 0
                   ELSE IF MediaTaken THEN mediaServed + active'.len
                   ELSE mediaServed

ShareNext == Next /\ Count

ShareSpec == ShareInit /\ [][ShareNext]_shareVars

------------------------------------------------------------------------------
MaxMedia == IF Cap[Interactive] >= Cap[Thumbnail] THEN Cap[Interactive] ELSE Cap[Thumbnail]

\* The weight 3 : 1 as a bound on waiting: while one bulk frame is at the head
\* of its queue, media gets at most the bytes that three times its credit pays
\* for, however media and its cancellations arrive.
BulkShare == mediaServed <= 3 * (Cap[Bulk] + 2 * BaseQuantum) + MaxMedia
==============================================================================
