CONSTANTS
    Categories <- MCCategories
    Messages <- MCMessages
    MaxSubmits <- MCMaxSubmits
SPECIFICATION Spec
PROPERTIES
    ButtonNeverStuck
CHECK_DEADLOCK FALSE
