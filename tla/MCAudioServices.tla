-------------------------- MODULE MCAudioServices ---------------------------
(* AudioServices with two ServiceRefs and two providers.                    *)
EXTENDS AudioServices
=============================================================================
