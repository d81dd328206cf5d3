--------------------------- MODULE MCMessagingNode ---------------------------
(***************************************************************************)
(* An instance of MessagingNode for TLC.  The texts hold a code unit on    *)
(* either side of every limit in the encoding, surrogate pairs among them. *)
(***************************************************************************)
EXTENDS MessagingNode

CONSTANT m1

Texts ==
  m1 :> <<0, 127, 128, 2047, 2048, 4095, 4096, 55295, 57344, 65535, 55296,
          56320, 65, 55296, 57343, 56319, 56320, 56319, 57343, 8364>>
=============================================================================
