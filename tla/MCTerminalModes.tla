--------------------------- MODULE MCTerminalModes ---------------------------
EXTENDS TerminalModes

\* The protocol that is kept on a stack with modes that report, and a single
\* one.
SomeMasks == {{"kitty", "ext"}, {"win32"}}

\* A line as a shell leaves it, and a console mode of 0.
SomeLines == {{"processed", "line", "echo", "quickedit"}, {}}

\* A terminal whose user pastes in brackets and has flags of his own.
SomeTerms == {[modes |-> {"2004"}, kitty |-> <<"5">>]}
=============================================================================
