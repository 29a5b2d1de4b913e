----------------------------- MODULE MCIdeProbe -----------------------------
EXTENDS IdeProbe

\* A channel floats as a whole, or not at all.
AllAttachments ==
  {f \in [Slot -> Kind] : \A s \in Slot : f[s] = "float" => f[<<s[1], 1 - s[2]>>] = "float"}
=============================================================================
