----------------------------- MODULE MCKeyboard -----------------------------
EXTENDS Keyboard
=============================================================================
