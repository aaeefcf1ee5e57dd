------------------------------ MODULE MCContext ------------------------------
EXTENDS DecContext

\* Words with no bit, one bit of each kind (error, information, internal to
\* one group), and two bits of different kinds.
MCWords == {{}, {"Invalid_operation"}, {"Rounded"},
            {"Invalid_operation", "Rounded"}}

MCNames == {"Overflow", "Clamped", "No status", "Multiple status"}
=============================================================================
