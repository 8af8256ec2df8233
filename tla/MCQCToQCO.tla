----------------------------- MODULE MCQCToQCO ------------------------------
EXTENDS QCOToQC

CONSTANTS q1, q2
MCQubits == <<q1, q2>>
=============================================================================
