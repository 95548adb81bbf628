SPECIFICATION Spec
CONSTANTS
    anna = anna
    boris = boris
    a1 = a1
    e1 = e1
    w1 = w1
    lead1 = lead1
    Nobody = Nobody
    People = {anna, boris}
    Admins = {a1}
    Editors = {e1}
    Workers = {w1}
    Leads = {lead1}
    MaxVersion = 3
SYMMETRY Symmetric
PROPERTY CheckedAssigneeIsActive
