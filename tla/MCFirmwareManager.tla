-------------------------- MODULE MCFirmwareManager --------------------------
EXTENDS FirmwareInvariant

\* An image that fits, a shorter one, one that is a header only, and one that is a
\* page too long.
MCNumBlocks ==
  [image \in Images |-> CASE image = "app" -> 3 [] image = "short" -> 2
                          [] image = "header" -> 1 [] OTHER -> 4]
=============================================================================
