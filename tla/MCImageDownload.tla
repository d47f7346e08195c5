-------------------------- MODULE MCImageDownload --------------------------
(***************************************************************************)
(* ImageDownload for TLC.  No definition tells one image from another, so  *)
(* what holds of one in all behaviours holds of each: the liveness         *)
(* property, which costs TLC a graph for every image, is checked of one,   *)
(* while the others share its connection, worker and failures.             *)
(***************************************************************************)
EXTENDS ImageDownload

CONSTANT Watched    \* an image

ASSUME WatchedAssumption == Watched \in Images

\* A download that is under way ends with the image in the cache, unless a message of its own was
\* lost or torn: the retries after failures lead somewhere (handleDownloadImageResponse).
ImagesArrive == Arrives(Watched)
=============================================================================
