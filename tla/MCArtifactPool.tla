---------------------------- MODULE MCArtifactPool ----------------------------
(***************************************************************************)
(* An instance of ArtifactPool: two workers and a queue of two for five    *)
(* jobs, so that the queue fills up; one input cannot be posted, three are *)
(* text jobs.                                                              *)
(***************************************************************************)
EXTENDS ArtifactPool

CONSTANTS artifacts, text1, text2, text3, unposted

MCJobs == {artifacts, text1, text2, text3, unposted}

MCTextJobs == {text1, text2, text3}

MCUncloneable == {unposted}

=============================================================================
