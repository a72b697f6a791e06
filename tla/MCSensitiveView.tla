--------------------------- MODULE MCSensitiveView ---------------------------
\* A small instance of SensitiveView for TLC: one list page and one vault page.
EXTENDS SensitiveView

CONSTANTS f1, f2, mqtt, infrastructure, mqttPage, overviewPage

PageScope == [p \in Pages |-> IF p = mqttPage THEN mqtt ELSE infrastructure]
=============================================================================
