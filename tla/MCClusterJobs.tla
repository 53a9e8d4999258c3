--------------------------- MODULE MCClusterJobs ---------------------------
(***************************************************************************)
(* Two servers with a converter each, and one of them with a link preview  *)
(* generator.                                                              *)
(***************************************************************************)
EXTENDS ClusterJobs

CONSTANTS n1, n2, conv1, conv2, prev1, browser, ffmpeg, imagemagick

MCNsOf(j) == IF j = conv2 THEN n2 ELSE n1

MCWantsOf(j) ==
    IF j = prev1 THEN {{browser}} ELSE (SUBSET {ffmpeg, imagemagick}) \ {{}}

\* The limits the runs start from: none configured (so 1 each); or two servers
\* with ffmpeg and, by the 0 an admin may save, one with ImageMagick.
MCLimits ==
    {<<>>, [r \in {ffmpeg, imagemagick} |-> IF r = ffmpeg THEN 2 ELSE 0]}

MCJobsInit == limits \in MCLimits /\ JobsInit

MCJobsSpec == MCJobsInit /\ [][JobsNext]_vars /\ JobsFairness
=============================================================================
